---- MODULE Spec2Model ----
(***************************************************************************)
(* speak-strong: the rule-matching and text-rewriting engine               *)
(* (packages/core/src/rule-engine.ts, packages/core/src/index.ts).         *)
(*                                                                         *)
(* A JavaScript string is modelled as a sequence of one-character strings; *)
(* offsets are 0-based as in the source, so text.slice(a, b) is            *)
(* SubSeq(text, a + 1, b).                                                 *)
(***************************************************************************)
EXTENDS Integers, Sequences, FiniteSets, TLC

----------------------------------------------------------------------------
(* Characters and the String methods the engine uses.                      *)

LowerLetters ==
    <<"a","b","c","d","e","f","g","h","i","j","k","l","m",
      "n","o","p","q","r","s","t","u","v","w","x","y","z">>

UpperLetters ==
    <<"A","B","C","D","E","F","G","H","I","J","K","L","M",
      "N","O","P","Q","R","S","T","U","V","W","X","Y","Z">>

LowerSet == {LowerLetters[i] : i \in DOMAIN LowerLetters}

UpperSet == {UpperLetters[i] : i \in DOMAIN UpperLetters}

UpperOf ==
    [c \in LowerSet |->
        UpperLetters[CHOOSE i \in DOMAIN LowerLetters : LowerLetters[i] = c]]

LowerOf ==
    [c \in UpperSet |->
        LowerLetters[CHOOSE i \in DOMAIN UpperLetters : UpperLetters[i] = c]]

\* /\s/
IsSpace(c) == c \in {" ", "\t", "\n"}

\* /\w/
IsWordChar(c) == c \in LowerSet \cup UpperSet \cup {"0","1","2","3","4","5","6","7","8","9"} \cup {"_"}

upperChar(c) == IF c \in LowerSet THEN UpperOf[c] ELSE c

toUpperCase(s) == [i \in 1..Len(s) |-> upperChar(s[i])]

toLowerCase(s) == [i \in 1..Len(s) |-> IF s[i] \in UpperSet THEN LowerOf[s[i]] ELSE s[i]]

\* s.slice(a, b) for 0 <= a, b
slice(s, a, b) ==
    LET e == IF b > Len(s) THEN Len(s) ELSE b
    IN  IF a >= e THEN <<>> ELSE SubSeq(s, a + 1, e)

\* s.slice(a)
sliceFrom(s, a) == slice(s, a, Len(s))

\* text[pos] || ''
charAt(s, pos) == IF pos >= 0 /\ pos < Len(s) THEN s[pos + 1] ELSE ""

----------------------------------------------------------------------------
(* Tokenizer.                                                              *)

CONTRACTIONS == {
    <<"i","'","m">>, <<"i","'","l","l">>, <<"i","'","v","e">>,
    <<"i","'","d">>, <<"y","o","u","'","r","e">>, <<"y","o","u","'","l","l">>,
    <<"y","o","u","'","v","e">>, <<"y","o","u","'","d">>, <<"h","e","'","s">>,
    <<"h","e","'","l","l">>, <<"h","e","'","d">>, <<"s","h","e","'","s">>,
    <<"s","h","e","'","l","l">>, <<"s","h","e","'","d">>, <<"i","t","'","s">>,
    <<"i","t","'","l","l">>, <<"i","t","'","d">>, <<"w","e","'","r","e">>,
    <<"w","e","'","l","l">>, <<"w","e","'","v","e">>, <<"w","e","'","d">>,
    <<"t","h","e","y","'","r","e">>, <<"t","h","e","y","'","l","l">>, <<"t","h","e","y","'","v","e">>,
    <<"t","h","e","y","'","d">>, <<"t","h","a","t","'","s">>, <<"t","h","a","t","'","l","l">>,
    <<"t","h","a","t","'","d">>, <<"w","h","o","'","s">>, <<"w","h","o","'","l","l">>,
    <<"w","h","o","'","d">>, <<"w","h","a","t","'","s">>, <<"w","h","a","t","'","l","l">>,
    <<"w","h","a","t","'","d">>, <<"w","h","e","r","e","'","s">>, <<"w","h","e","r","e","'","l","l">>,
    <<"w","h","e","r","e","'","d">>, <<"w","h","e","n","'","s">>, <<"w","h","e","n","'","l","l">>,
    <<"w","h","e","n","'","d">>, <<"w","h","y","'","s">>, <<"w","h","y","'","l","l">>,
    <<"w","h","y","'","d">>, <<"h","o","w","'","s">>, <<"h","o","w","'","l","l">>,
    <<"h","o","w","'","d">>, <<"i","s","n","'","t">>, <<"a","r","e","n","'","t">>,
    <<"w","a","s","n","'","t">>, <<"w","e","r","e","n","'","t">>, <<"h","a","s","n","'","t">>,
    <<"h","a","v","e","n","'","t">>, <<"h","a","d","n","'","t">>, <<"d","o","e","s","n","'","t">>,
    <<"d","o","n","'","t">>, <<"d","i","d","n","'","t">>, <<"w","o","n","'","t">>,
    <<"w","o","u","l","d","n","'","t">>, <<"s","h","o","u","l","d","n","'","t">>, <<"c","o","u","l","d","n","'","t">>,
    <<"m","i","g","h","t","n","'","t">>, <<"m","u","s","t","n","'","t">>, <<"c","a","n","'","t">>,
    <<"l","e","t","'","s">>, <<"h","e","r","e","'","s">>, <<"t","h","e","r","e","'","s">>
}

\* the inner loop of the whitespace branch: the first offset >= pos that
\* holds no whitespace character
RECURSIVE skipWhitespace(_, _)
skipWhitespace(text, pos) ==
    IF pos < Len(text) /\ IsSpace(text[pos + 1])
    THEN skipWhitespace(text, pos + 1)
    ELSE pos

\* the inner loop of the word branch: the first offset >= pos that holds
\* neither a word character nor an apostrophe
RECURSIVE skipWord(_, _)
skipWord(text, pos) ==
    IF pos < Len(text) /\ (IsWordChar(text[pos + 1]) \/ text[pos + 1] = "'")
    THEN skipWord(text, pos + 1)
    ELSE pos

\* a plausible slip: the apostrophe is dropped from the word, pos is kept
RECURSIVE stripKeepingPos(_, _)
stripKeepingPos(word, pos) ==
    IF Len(word) > 0 /\ word[Len(word)] = "'" /\ toLowerCase(word) \notin CONTRACTIONS
    THEN stripKeepingPos(SubSeq(word, 1, Len(word) - 1), pos)
    ELSE [word |-> word, pos |-> pos]

\* "Clean trailing apostrophes that aren't part of contractions"
RECURSIVE stripTrailingApostrophes(_, _)
stripTrailingApostrophes(word, pos) ==
    IF Len(word) > 0 /\ word[Len(word)] = "'" /\ toLowerCase(word) \notin CONTRACTIONS
    THEN stripTrailingApostrophes(SubSeq(word, 1, Len(word) - 1), pos - 1)
    ELSE [word |-> word, pos |-> pos]

\* one iteration of the while loop of tokenize: the token pushed at pos
\* (the loop continues at its end)
nextToken(text, pos) ==
    LET char == text[pos + 1]
    IN  IF IsSpace(char)
        THEN LET e == skipWhitespace(text, pos)
             IN  [text |-> slice(text, pos, e), type |-> "whitespace",
                  start |-> pos, end |-> e, normalized |-> slice(text, pos, e)]
        ELSE IF (~IsWordChar(char) /\ ~IsSpace(char) /\ char # "'")
                \/ (char = "'" /\ ~IsWordChar(charAt(text, pos + 1)))
        THEN [text |-> <<char>>, type |-> "punctuation",
              start |-> pos, end |-> pos + 1, normalized |-> <<char>>]
        ELSE IF IsWordChar(char) \/ char = "'"
        THEN LET e == skipWord(text, pos)
                 w == stripTrailingApostrophes(slice(text, pos, e), e)
             IN  [text |-> w.word,
                  type |-> IF toLowerCase(w.word) \in CONTRACTIONS
                           THEN "contraction" ELSE "word",
                  start |-> pos, end |-> w.pos, normalized |-> toLowerCase(w.word)]
        ELSE [text |-> <<char>>, type |-> "punctuation",
              start |-> pos, end |-> pos + 1, normalized |-> <<char>>]

RECURSIVE tokenizeFrom(_, _, _)
tokenizeFrom(text, pos, tokens) ==
    IF pos < Len(text)
    THEN LET t == nextToken(text, pos)
         IN  tokenizeFrom(text, t.end, Append(tokens, t))
    ELSE tokens

tokenize(text) == tokenizeFrom(text, 0, <<>>)

getWordTokens(tokens) ==
    SelectSeq(tokens, LAMBDA t : t.type = "word" \/ t.type = "contraction")

RECURSIVE tokensToText(_)
tokensToText(tokens) ==
    IF tokens = <<>> THEN <<>>
    ELSE Head(tokens).text \o tokensToText(Tail(tokens))

----------------------------------------------------------------------------
(* Rule model.  An optional value (undefined / null in the source) is a    *)
(* sequence of length 0 or 1.                                              *)

Absent == <<>>

Some(v) == <<v>>

\* s.split(/\s+/).filter(Boolean)
RECURSIVE splitFrom(_, _, _, _)
splitFrom(s, pos, cur, acc) ==
    IF pos >= Len(s)
    THEN IF cur = <<>> THEN acc ELSE Append(acc, cur)
    ELSE IF IsSpace(s[pos + 1])
    THEN splitFrom(s, pos + 1, <<>>, IF cur = <<>> THEN acc ELSE Append(acc, cur))
    ELSE splitFrom(s, pos + 1, Append(cur, s[pos + 1]), acc)

splitWords(s) == splitFrom(s, 0, <<>>, <<>>)

\* words.join(' ')
RECURSIVE joinSpace(_)
joinSpace(words) ==
    IF words = <<>> THEN <<>>
    ELSE IF Len(words) = 1 THEN words[1]
    ELSE words[1] \o <<" ">> \o joinSpace(Tail(words))

\* each word has its punctuation removed: word.replace(/[.,!?;:]/g, '')
normalizePatternText(text) ==
    LET words   == splitWords(toLowerCase(text))
        cleaned == [i \in 1..Len(words) |->
                       [text     |-> SelectSeq(words[i],
                                               LAMBDA c : c \notin {".", ",", "!", "?", ";", ":"}),
                        optional |-> FALSE]]
    IN  SelectSeq(cleaned, LAMBDA t : Len(t.text) > 0)

\* the keys of RESTRUCTURE_CAPTURES; each maps to [{ name: 'subject' }]
RESTRUCTURE_CAPTURES ==
    {<<"w","o","u","l","d"," ","y","o","u"," ","m","i","n","d"," ","i","f">>}

\* patternKey.replace(/\s+/g, '-')
RECURSIVE dashWhitespace(_, _)
dashWhitespace(s, pos) ==
    IF pos >= Len(s) THEN <<>>
    ELSE IF IsSpace(s[pos + 1])
    THEN <<"-">> \o dashWhitespace(s, skipWhitespace(s, pos))
    ELSE <<s[pos + 1]>> \o dashWhitespace(s, pos + 1)

\* a plausible slip: the suggestion wins over a replacement that is there
convertRuleEntrySuggestionFirst(entry, level) ==
    [id          |-> <<level, dashWhitespace(toLowerCase(entry.pattern), 0)>>,
     pattern     |-> normalizePatternText(entry.pattern),
     replacement |-> IF entry.suggestion # Absent /\ entry.suggestion[1] # <<>>
                     THEN Absent
                     ELSE IF entry.replacement = Absent \/ entry.replacement[1] = <<>>
                     THEN Some(<<>>)
                     ELSE Some(splitWords(entry.replacement[1])),
     level       |-> level,
     category    |-> entry.category,
     suggestion  |-> entry.suggestion,
     restructure |-> entry.restructure /\ toLowerCase(entry.pattern) \in RESTRUCTURE_CAPTURES]

\* entry: [pattern, replacement (optional string), category,
\*         suggestion (optional string), restructure (boolean, absent = FALSE)]
convertRuleEntry(entry, level) ==
    LET patternKey == toLowerCase(entry.pattern)
        truthySuggestion == entry.suggestion # Absent /\ entry.suggestion[1] # <<>>
        replacement ==
            IF truthySuggestion /\ entry.replacement = Absent
            THEN Absent
            ELSE IF entry.replacement = Absent \/ entry.replacement[1] = <<>>
            THEN Some(<<>>)
            ELSE Some(splitWords(entry.replacement[1]))
    IN  [id          |-> <<level, dashWhitespace(patternKey, 0)>>,
         pattern     |-> normalizePatternText(entry.pattern),
         replacement |-> replacement,
         level       |-> level,
         category    |-> entry.category,
         suggestion  |-> entry.suggestion,
         restructure |-> entry.restructure /\ patternKey \in RESTRUCTURE_CAPTURES]

\* legacy: [pattern, replacement (string or null), level, category, suggestion]
convertLegacyRule(legacy) ==
    convertRuleEntry(
        [pattern     |-> legacy.pattern,
         replacement |-> legacy.replacement,
         category    |-> legacy.category,
         suggestion  |-> legacy.suggestion,
         restructure |-> FALSE],
        legacy.level)

----------------------------------------------------------------------------
(* Matcher.                                                                *)

\* a plausible slip: the token's text is compared, not its normalized form
RECURSIVE matchLoopRawText(_, _, _, _)
matchLoopRawText(wordTokens, pattern, tokenIdx, patternIdx) ==
    IF patternIdx >= Len(pattern)
    THEN [matched |-> TRUE, endIndex |-> tokenIdx]
    ELSE LET patternToken == pattern[patternIdx + 1]
         IN  IF tokenIdx >= Len(wordTokens)
             THEN IF patternToken.optional
                  THEN matchLoopRawText(wordTokens, pattern, tokenIdx, patternIdx + 1)
                  ELSE [matched |-> FALSE, endIndex |-> tokenIdx]
             ELSE IF wordTokens[tokenIdx + 1].text = patternToken.text
             THEN matchLoopRawText(wordTokens, pattern, tokenIdx + 1, patternIdx + 1)
             ELSE IF patternToken.optional
             THEN matchLoopRawText(wordTokens, pattern, tokenIdx, patternIdx + 1)
             ELSE [matched |-> FALSE, endIndex |-> tokenIdx]

RECURSIVE matchLoop(_, _, _, _)
matchLoop(wordTokens, pattern, tokenIdx, patternIdx) ==
    IF patternIdx >= Len(pattern)
    THEN [matched |-> TRUE, endIndex |-> tokenIdx]
    ELSE LET patternToken == pattern[patternIdx + 1]
         IN  IF tokenIdx >= Len(wordTokens)
             THEN IF patternToken.optional
                  THEN matchLoop(wordTokens, pattern, tokenIdx, patternIdx + 1)
                  ELSE [matched |-> FALSE, endIndex |-> tokenIdx]
             ELSE IF wordTokens[tokenIdx + 1].normalized = patternToken.text
             THEN matchLoop(wordTokens, pattern, tokenIdx + 1, patternIdx + 1)
             ELSE IF patternToken.optional
             THEN matchLoop(wordTokens, pattern, tokenIdx, patternIdx + 1)
             ELSE [matched |-> FALSE, endIndex |-> tokenIdx]

matchesPattern(wordTokens, startIndex, pattern) ==
    matchLoop(wordTokens, pattern, startIndex, 0)

capitalizeFirst(replacement) ==
    <<upperChar(replacement[1])>> \o toLowerCase(Tail(replacement))

\* a plausible slip: the ALL-CAPS class without the length test, so that a
\* one-letter first word such as "I" counts as ALL-CAPS
preserveCaseAnyLength(original, replacement) ==
    IF replacement = <<>> THEN replacement
    ELSE
    LET originalWords == splitWords(original)
        firstWord == IF originalWords # <<>> THEN originalWords[1] ELSE original
    IN  IF firstWord = toUpperCase(firstWord) /\ firstWord # toLowerCase(firstWord)
        THEN toUpperCase(replacement)
        ELSE IF firstWord = toLowerCase(firstWord) /\ firstWord # toUpperCase(firstWord)
        THEN toLowerCase(replacement)
        ELSE IF /\ firstWord[1] = upperChar(firstWord[1])
                /\ (Len(firstWord) = 1 \/ Tail(firstWord) = toLowerCase(Tail(firstWord)))
        THEN <<upperChar(replacement[1])>> \o toLowerCase(Tail(replacement))
        ELSE replacement

preserveCase(original, replacement) ==
    IF replacement = <<>> THEN replacement
    ELSE
    LET originalWords == splitWords(original)
        firstWord == IF originalWords # <<>> THEN originalWords[1] ELSE original
        hasMultipleChars == Len(firstWord) > 1
        isAllUpper ==
            /\ hasMultipleChars
            /\ firstWord = toUpperCase(firstWord)
            /\ firstWord # toLowerCase(firstWord)
        isAllLower ==
            /\ firstWord = toLowerCase(firstWord)
            /\ firstWord # toUpperCase(firstWord)
        isCapitalized ==
            /\ firstWord[1] = upperChar(firstWord[1])
            /\ (Len(firstWord) = 1 \/ Tail(firstWord) = toLowerCase(Tail(firstWord)))
    IN  IF isAllUpper THEN toUpperCase(replacement)
        ELSE IF isAllLower THEN toLowerCase(replacement)
        ELSE IF isCapitalized THEN capitalizeFirst(replacement)
        ELSE replacement

\* replacement: Absent (null) or Some(words); the result: Absent or Some(text)
buildReplacementText(matchedTokens, replacement) ==
    IF replacement = Absent THEN Absent
    ELSE IF replacement[1] = <<>> THEN Some(<<>>)
    ELSE LET words == getWordTokens(matchedTokens)
         IN  IF words = <<>>
             THEN Some(joinSpace(replacement[1]))
             ELSE Some(preserveCase(
                     joinSpace([i \in 1..Len(words) |-> words[i].text]),
                     joinSpace(replacement[1])))

SUBJECT_PRONOUNS ==
    {<<"i">>, <<"w","e">>, <<"y","o","u">>, <<"h","e">>, <<"s","h","e">>,
     <<"i","t">>, <<"t","h","e","y">>}

\* allTokens.findIndex(...) + 1 over a set of satisfying indices: the first
\* 1-based index that satisfies the test, 0 if none
firstIndex(indices) ==
    IF indices = {} THEN 0
    ELSE CHOOSE k \in indices : \A j \in indices : k <= j

getTokensBetween(allTokens, start, end) ==
    LET startToken == firstIndex({k \in 1..Len(allTokens) : allTokens[k].start >= start})
        endToken   == firstIndex({k \in 1..Len(allTokens) : allTokens[k].end >= end})
        actualEnd  == IF endToken = 0 THEN Len(allTokens) ELSE endToken
    IN  IF startToken = 0 THEN <<>>
        ELSE IF startToken > actualEnd THEN <<>>
        ELSE SubSeq(allTokens, startToken, actualEnd)

\* Array.prototype.sort is stable.  keyed: a sequence of [key, item]; the
\* result is in ascending key order, equal keys in their original order.
insertSorted(sorted, x) ==
    LET k == IF \E j \in 1..Len(sorted) : x.key < sorted[j].key
             THEN CHOOSE j \in 1..Len(sorted) :
                     x.key < sorted[j].key /\ \A h \in 1..(j - 1) : ~(x.key < sorted[h].key)
             ELSE Len(sorted) + 1
    IN  SubSeq(sorted, 1, k - 1) \o <<x>> \o SubSeq(sorted, k, Len(sorted))

RECURSIVE stableSort(_, _)
stableSort(keyed, done) ==
    IF keyed = <<>> THEN [i \in 1..Len(done) |-> done[i].item]
    ELSE stableSort(Tail(keyed), insertSorted(done, Head(keyed)))

\* a plausible slip: sorted by ascending length and then reversed, which
\* turns the order of rules of equal length around
sortRulesReversed(rules) ==
    LET ascending == stableSort([i \in 1..Len(rules) |->
                                    [key |-> Len(rules[i].pattern), item |-> rules[i]]], <<>>)
    IN  [i \in 1..Len(ascending) |-> ascending[Len(ascending) + 1 - i]]

\* [...rules].sort((a, b) => b.pattern.length - a.pattern.length)
sortRules(rules) ==
    stableSort([i \in 1..Len(rules) |->
                   [key |-> 0 - Len(rules[i].pattern), item |-> rules[i]]], <<>>)

\* matches.sort((a, b) => a.textStart - b.textStart)
sortByStart(matches) ==
    stableSort([i \in 1..Len(matches) |->
                   [key |-> matches[i].textStart, item |-> matches[i]]], <<>>)

\* usedRanges.some(...)
overlapsUsed(textStart, textEnd, usedRanges) ==
    \E k \in 1..Len(usedRanges) :
        LET range == usedRanges[k]
        IN  \/ (textStart >= range.start /\ textStart < range.end)
            \/ (textEnd > range.start /\ textEnd <= range.end)
            \/ (textStart <= range.start /\ textEnd >= range.end)

\* a plausible slip: the restructuring block left out
restructuredEndUnextended(rule, allTokens, textEnd) == textEnd

\* the restructuring block: the end offset after the 'subject' capture
restructuredEnd(rule, allTokens, textEnd) ==
    LET after == SelectSeq(allTokens, LAMBDA t : t.start >= textEnd)
        afterWordTokens == getWordTokens(after)
    IN  IF rule.restructure /\ afterWordTokens # <<>>
           /\ afterWordTokens[1].normalized \in SUBJECT_PRONOUNS
        THEN afterWordTokens[1].end
        ELSE textEnd

\* usedRanges.push({ start: textStart, end: textEnd })
usedRange(textStart, textEnd, actualTextEnd) ==
    [start |-> textStart, end |-> textEnd]

\* the body of the inner loop of findMatches at word index i (0-based);
\* acc: [matches, usedRanges].  No TokenRule built by convertRuleEntry has a
\* constraint, so the constraint test never rejects.
scanPosition(rule, i, allTokens, wordTokens, acc) ==
    LET result == matchesPattern(wordTokens, i, rule.pattern)
    IN  IF ~result.matched \/ result.endIndex <= i THEN acc
        ELSE
        LET textStart == wordTokens[i + 1].start
            textEnd   == wordTokens[result.endIndex].end
        IN  IF overlapsUsed(textStart, textEnd, acc.usedRanges) THEN acc
            ELSE
            LET actualTextEnd == restructuredEnd(rule, allTokens, textEnd)
                actualMatchedTokens ==
                    getTokensBetween(allTokens, textStart, actualTextEnd)
                m == [rule            |-> rule,
                      tokenStart      |-> i,
                      tokenEnd        |-> result.endIndex,
                      textStart       |-> textStart,
                      textEnd         |-> actualTextEnd,
                      matchedTokens   |-> actualMatchedTokens,
                      replacementText |->
                          buildReplacementText(actualMatchedTokens, rule.replacement)]
            IN  [matches    |-> Append(acc.matches, m),
                 usedRanges |-> Append(acc.usedRanges,
                                       usedRange(textStart, textEnd, actualTextEnd))]

\* a plausible slip: the inner loop ends at the rule's first match
RECURSIVE scanFromFirstMatch(_, _, _, _, _)
scanFromFirstMatch(rule, i, allTokens, wordTokens, acc) ==
    IF i >= Len(wordTokens) THEN acc
    ELSE IF scanPosition(rule, i, allTokens, wordTokens, acc) # acc
    THEN scanPosition(rule, i, allTokens, wordTokens, acc)
    ELSE scanFromFirstMatch(rule, i + 1, allTokens, wordTokens, acc)

\* the inner loop of findMatches from word index i: an iteration either
\* continues with matches and usedRanges as they are or pushes to both
RECURSIVE scanFrom(_, _, _, _, _)
scanFrom(rule, i, allTokens, wordTokens, acc) ==
    IF i >= Len(wordTokens) THEN acc
    ELSE LET pushed == scanPosition(rule, i, allTokens, wordTokens, acc)
         IN  IF Len(pushed.matches) = Len(acc.matches)
             THEN scanFrom(rule, i + 1, allTokens, wordTokens, acc)
             ELSE scanFrom(rule, i + 1, allTokens, wordTokens, pushed)

RECURSIVE scanRules(_, _, _, _)
scanRules(sortedRules, allTokens, wordTokens, acc) ==
    IF sortedRules = <<>> THEN acc
    ELSE scanRules(Tail(sortedRules), allTokens, wordTokens,
                   scanFrom(Head(sortedRules), 0, allTokens, wordTokens, acc))

findMatches(text, rules) ==
    LET allTokens == tokenize(text)
    IN  sortByStart(scanRules(sortRules(rules), allTokens, getWordTokens(allTokens),
                              [matches |-> <<>>, usedRanges |-> <<>>]).matches)

----------------------------------------------------------------------------
(* Replacer.                                                               *)

\* text.split('\n')
RECURSIVE splitLinesFrom(_, _, _, _)
splitLinesFrom(text, pos, cur, acc) ==
    IF pos >= Len(text) THEN Append(acc, cur)
    ELSE IF text[pos + 1] = "\n"
    THEN splitLinesFrom(text, pos + 1, <<>>, Append(acc, cur))
    ELSE splitLinesFrom(text, pos + 1, Append(cur, text[pos + 1]), acc)

splitLines(text) == splitLinesFrom(text, 0, <<>>, <<>>)

\* lines.join('\n')
RECURSIVE joinLines(_)
joinLines(lines) ==
    IF lines = <<>> THEN <<>>
    ELSE IF Len(lines) = 1 THEN lines[1]
    ELSE lines[1] \o <<"\n">> \o joinLines(Tail(lines))

\* the first offset >= pos that holds no plain space
RECURSIVE skipSpaces(_, _)
skipSpaces(line, pos) ==
    IF pos < Len(line) /\ line[pos + 1] = " " THEN skipSpaces(line, pos + 1) ELSE pos

\* line.replace(/[ ]{2,}/g, ' ')
RECURSIVE collapseSpaces(_, _)
collapseSpaces(line, pos) ==
    IF pos >= Len(line) THEN <<>>
    ELSE IF line[pos + 1] = " "
    THEN <<" ">> \o collapseSpaces(line, skipSpaces(line, pos))
    ELSE <<line[pos + 1]>> \o collapseSpaces(line, pos + 1)

\* cleaned.replace(/\s+([.,!?;:])/g, '$1')
RECURSIVE removeSpaceBeforePunctuation(_, _)
removeSpaceBeforePunctuation(line, pos) ==
    IF pos >= Len(line) THEN <<>>
    ELSE IF IsSpace(line[pos + 1])
    THEN LET e == skipWhitespace(line, pos)
         IN  IF charAt(line, e) \in {".", ",", "!", "?", ";", ":"}
             THEN <<line[e + 1]>> \o removeSpaceBeforePunctuation(line, e + 1)
             ELSE slice(line, pos, e) \o removeSpaceBeforePunctuation(line, e)
    ELSE <<line[pos + 1]>> \o removeSpaceBeforePunctuation(line, pos + 1)

\* cleaned.replace(/^[ ]+/g, '')
trimLeadingSpaces(line) == sliceFrom(line, skipSpaces(line, 0))

\* cleaned.replace(/[ ]+$/g, '')
RECURSIVE trimTrailingSpaces(_)
trimTrailingSpaces(line) ==
    IF Len(line) > 0 /\ line[Len(line)] = " "
    THEN trimTrailingSpaces(SubSeq(line, 1, Len(line) - 1))
    ELSE line

\* a plausible slip: the trailing spaces are left in place
cleanLineTrailing(line) ==
    trimLeadingSpaces(removeSpaceBeforePunctuation(collapseSpaces(line, 0), 0))

cleanLine(line) ==
    trimTrailingSpaces(trimLeadingSpaces(
        removeSpaceBeforePunctuation(collapseSpaces(line, 0), 0)))

\* a plausible slip: /([.!?]\s)([a-z])/g, one whitespace character only
capitalizeSentencesOneSpace(text) ==
    [j \in 1..Len(text) |->
        IF /\ text[j] \in LowerSet
           /\ j > 2
           /\ IsSpace(text[j - 1])
           /\ text[j - 2] \in {".", "!", "?"}
        THEN upperChar(text[j])
        ELSE text[j]]

\* result.replace(/([.!?]\s+)([a-z])/g, ...): a lowercase letter that follows
\* a run of whitespace that follows '.', '!' or '?' is uppercased
capitalizeSentences(text) ==
    [j \in 1..Len(text) |->
        IF /\ text[j] \in LowerSet
           /\ \E p \in 1..(j - 2) :
                 /\ text[p] \in {".", "!", "?"}
                 /\ \A q \in (p + 1)..(j - 1) : IsSpace(text[q])
        THEN upperChar(text[j])
        ELSE text[j]]

\* result.search(/\S/) and the uppercasing of that character
capitalizeFirstLetter(text) ==
    LET firstNonWhitespace == skipWhitespace(text, 0)
    IN  IF firstNonWhitespace < Len(text)
           /\ text[firstNonWhitespace + 1] # upperChar(text[firstNonWhitespace + 1])
        THEN [text EXCEPT ![firstNonWhitespace + 1] = upperChar(@)]
        ELSE text

cleanupText(text) ==
    LET lines == splitLines(text)
        cleanedLines == [i \in 1..Len(lines) |-> cleanLine(lines[i])]
    IN  capitalizeFirstLetter(capitalizeSentences(joinLines(cleanedLines)))

\* one iteration of the loop of applyMatches
splice(result, match) ==
    slice(result, 0, match.textStart)
        \o (IF match.replacementText = Absent THEN <<>> ELSE match.replacementText[1])
        \o sliceFrom(result, match.textEnd)

RECURSIVE spliceAll(_, _)
spliceAll(result, sortedMatches) ==
    IF sortedMatches = <<>> THEN result
    ELSE spliceAll(splice(result, Head(sortedMatches)), Tail(sortedMatches))

\* matches.filter((m) => m.replacementText !== null), sorted right to left
\* [...replacementMatches].sort((a, b) => b.textStart - a.textStart)
replacementMatches(matches) ==
    LET replacing == SelectSeq(matches, LAMBDA m : m.replacementText # Absent)
    IN  stableSort([i \in 1..Len(replacing) |->
                       [key |-> 0 - replacing[i].textStart, item |-> replacing[i]]], <<>>)

applyMatches(text, matches) ==
    cleanupText(spliceAll(text, replacementMatches(matches)))

\* a plausible slip: every match is taken for a replacement
replacementsUnfiltered(allMatches) == allMatches

\* allMatches.filter((m) => m.rule.replacement !== null)
replacementsOf(allMatches) ==
    SelectSeq(allMatches, LAMBDA m : m.rule.replacement # Absent)

\* a plausible slip: the second filter repeats the condition of the first
suggestionsAsReplacements(allMatches) ==
    SelectSeq(allMatches, LAMBDA m : m.rule.replacement # Absent)

\* allMatches.filter((m) => m.rule.replacement === null)
suggestionsOf(allMatches) ==
    SelectSeq(allMatches, LAMBDA m : m.rule.replacement = Absent)

processWithRules(text, rules) ==
    LET allMatches == findMatches(text, rules)
    IN  [original    |-> text,
         transformed |-> applyMatches(text, replacementsOf(allMatches)),
         matches     |-> replacementsOf(allMatches),
         suggestions |-> suggestionsOf(allMatches)]

----------------------------------------------------------------------------
(* index.ts: the rule cache and processText.  A function that reads or     *)
(* writes the module-level cache takes it as an argument and returns it.   *)

\* rulesData: [conservative, moderate, aggressive: sequences of RuleEntry]
buildTokenRules(cache, rulesData) ==
    IF cache # Absent THEN cache
    ELSE Some([conservative |->
                   [i \in 1..Len(rulesData.conservative) |->
                       convertRuleEntry(rulesData.conservative[i], "conservative")],
               moderate |->
                   [i \in 1..Len(rulesData.moderate) |->
                       convertRuleEntry(rulesData.moderate[i], "moderate")],
               aggressive |->
                   [i \in 1..Len(rulesData.aggressive) |->
                       convertRuleEntry(rulesData.aggressive[i], "aggressive")]])

\* a plausible slip: the cached conservative list is not copied, so the pushes
\* land in the cache
applicableWithoutCopy(cache, rulesData, level) ==
    LET built == buildTokenRules(cache, rulesData)
        rulesByLevel == built[1]
        tokenRules ==
            rulesByLevel.conservative
                \o (IF level \in {"moderate", "aggressive"}
                    THEN rulesByLevel.moderate ELSE <<>>)
                \o (IF level = "aggressive" THEN rulesByLevel.aggressive ELSE <<>>)
    IN  [tokenRules |-> tokenRules,
         cache |-> Some([rulesByLevel EXCEPT !.conservative = tokenRules])]

\* a plausible slip: each level uses its own list only
applicableOwnLevelOnly(cache, rulesData, level) ==
    LET built == buildTokenRules(cache, rulesData)
    IN  [tokenRules |-> built[1][level], cache |-> built]

getApplicableTokenRules(cache, rulesData, level) ==
    LET built == buildTokenRules(cache, rulesData)
        rulesByLevel == built[1]
    IN  [tokenRules |->
            rulesByLevel.conservative
                \o (IF level \in {"moderate", "aggressive"}
                    THEN rulesByLevel.moderate ELSE <<>>)
                \o (IF level = "aggressive" THEN rulesByLevel.aggressive ELSE <<>>),
         cache |-> built]

tokenRuleToRule(tokenRule) ==
    [pattern     |-> joinSpace([i \in 1..Len(tokenRule.pattern) |-> tokenRule.pattern[i].text]),
     replacement |-> IF tokenRule.replacement = Absent THEN Absent
                     ELSE Some(joinSpace(tokenRule.replacement[1])),
     level       |-> tokenRule.level,
     category    |-> tokenRule.category,
     suggestion  |-> tokenRule.suggestion]

\* a plausible slip: the offsets are taken from the word-token indices
ruleMatchToMatchTokenOffsets(ruleMatch) ==
    [original    |-> tokensToText(ruleMatch.matchedTokens),
     replacement |-> ruleMatch.replacementText,
     start       |-> ruleMatch.tokenStart,
     end         |-> ruleMatch.tokenEnd,
     rule        |-> tokenRuleToRule(ruleMatch.rule)]

ruleMatchToMatch(ruleMatch) ==
    [original    |-> tokensToText(ruleMatch.matchedTokens),
     replacement |-> ruleMatch.replacementText,
     start       |-> ruleMatch.textStart,
     end         |-> ruleMatch.textEnd,
     rule        |-> tokenRuleToRule(ruleMatch.rule)]

\* the ProcessResult and the cache after the call
processText(cache, rulesData, text, level) ==
    LET applicable == getApplicableTokenRules(cache, rulesData, level)
        engineResult == processWithRules(text, applicable.tokenRules)
    IN  [result |->
            [original     |-> text,
             transformed  |-> engineResult.transformed,
             replacements |-> [i \in 1..Len(engineResult.matches) |->
                                  ruleMatchToMatch(engineResult.matches[i])],
             suggestions  |-> [i \in 1..Len(engineResult.suggestions) |->
                                  ruleMatchToMatch(engineResult.suggestions[i])]],
         cache |-> applicable.cache]

----------------------------------------------------------------------------
(* interactive.ts: the keys of the prompt and applyAcceptedReplacements.   *)

\* the key that a terminal in raw mode sends for Ctrl+C, '\x03'
CtrlC == "ETX"

\* a plausible slip: the key is lowercased before it is compared
parseKeypressAnyCase(key) ==
    IF key \in {"a", "A"} THEN Some("accept")
    ELSE IF key \in {"s", "S"} THEN Some("skip")
    ELSE IF key = "q" \/ key = CtrlC THEN Some("quit")
    ELSE Absent

\* an InteractiveAction, or null (Absent)
parseKeypress(key) ==
    IF key = "a" THEN Some("accept")
    ELSE IF key = "s" THEN Some("skip")
    ELSE IF key = "A" THEN Some("accept-all")
    ELSE IF key = "S" THEN Some("skip-all")
    ELSE IF key = "q" \/ key = CtrlC THEN Some("quit")
    ELSE Absent

\* [...result.replacements].sort((a, b) => a.start - b.start)
sortReplacements(replacements) ==
    stableSort([i \in 1..Len(replacements) |->
                   [key |-> replacements[i].start, item |-> replacements[i]]], <<>>)

\* a plausible slip: (a, b) => a.start - b.start, the splices run left to right
sortedByPositionAscending(accepted) ==
    stableSort([i \in 1..Len(accepted) |->
                   [key |-> accepted[i].start, item |-> accepted[i]]], <<>>)

\* [...accepted].sort((a, b) => b.start - a.start)
sortedByPosition(accepted) ==
    stableSort([i \in 1..Len(accepted) |->
                   [key |-> 0 - accepted[i].start, item |-> accepted[i]]], <<>>)

\* the loop of applyAcceptedReplacements
RECURSIVE spliceAccepted(_, _)
spliceAccepted(result, sortedAccepted) ==
    IF sortedAccepted = <<>> THEN result
    ELSE LET match == Head(sortedAccepted)
         IN  spliceAccepted(
                 slice(result, 0, match.start)
                     \o (IF match.replacement = Absent THEN <<>> ELSE match.replacement[1])
                     \o sliceFrom(result, match.end),
                 Tail(sortedAccepted))

\* the clean-up that ends applyAcceptedReplacements
cleanupAccepted(result) ==
    LET lines == splitLines(result)
        cleanedLines == [i \in 1..Len(lines) |-> cleanLine(lines[i])]
    IN  capitalizeFirstLetter(capitalizeSentences(joinLines(cleanedLines)))

\* a plausible slip: no early return for an empty list
applyAcceptedAlwaysCleaned(original, accepted) ==
    cleanupAccepted(spliceAccepted(original, sortedByPosition(accepted)))

applyAcceptedReplacements(original, accepted) ==
    IF Len(accepted) = 0 THEN original
    ELSE cleanupAccepted(spliceAccepted(original, sortedByPosition(accepted)))

\* replacer.ts: the replacements section, present when showDiff holds and
\* something was accepted, and the transformed text below it
formatInteractiveOutput(result, interactiveResult, showDiff) ==
    [replacements |-> IF showDiff /\ Len(interactiveResult.accepted) > 0
                      THEN interactiveResult.accepted ELSE <<>>,
     transformed  |-> applyAcceptedReplacements(result.original, interactiveResult.accepted)]

----------------------------------------------------------------------------
(* history.ts: the entries of history.json.                                *)

createEntryFromResult(result, level, options) ==
    [inputFile        |-> options.inputFile,
     inputMessage     |-> options.inputMessage,
     outputFile       |-> options.outputFile,
     original         |-> result.original,
     transformed      |-> result.transformed,
     level            |-> level,
     replacementCount |-> Len(result.replacements),
     suggestionCount  |-> Len(result.suggestions)]

\* { ...entry, id: generateId(), timestamp: new Date().toISOString() }
fullEntryOf(entry, id, timestamp) ==
    [inputFile        |-> entry.inputFile,
     inputMessage     |-> entry.inputMessage,
     outputFile       |-> entry.outputFile,
     original         |-> entry.original,
     transformed      |-> entry.transformed,
     level            |-> entry.level,
     replacementCount |-> entry.replacementCount,
     suggestionCount  |-> entry.suggestionCount,
     id               |-> id,
     timestamp        |-> timestamp]

\* a plausible slip: the new entry is pushed at the end and the list cut there
saveEntryAtEnd(entries, limit, fullEntry) ==
    LET pushed == Append(entries, fullEntry)
    IN  IF Len(pushed) > limit THEN SubSeq(pushed, 1, limit) ELSE pushed

\* db.entries after saveEntry: unshift, then slice(0, maxEntries)
saveEntry(entries, limit, fullEntry) ==
    LET unshifted == <<fullEntry>> \o entries
    IN  IF Len(unshifted) > limit THEN slice(unshifted, 0, limit) ELSE unshifted

\* db.entries[0] || null
getLatestEntry(entries) ==
    IF Len(entries) > 0 THEN Some(entries[1]) ELSE Absent

\* getEntries(limit): limit 0 stands for an omitted limit
getEntries(entries, limit) ==
    IF limit > 0 THEN slice(entries, 0, limit) ELSE entries

-----------------------------------------------------------------------------
(* file.ts and node:fs: a disk maps each path (a sequence of names) to what *)
(* is there.                                                               *)

Missing == [kind |-> "missing"]

File(content, writable) == [kind |-> "file", content |-> content, writable |-> writable]

Directory == [kind |-> "directory"]

existsSync(disk, path) == disk[path].kind # "missing"

dirname(path) == SubSeq(path, 1, Len(path) - 1)

\* dir and the directories above it
ancestors(dir) == {SubSeq(dir, 1, n) : n \in 1..Len(dir)}

\* mkdirSync(dir, { recursive: true }): the error it throws, if any, and the disk after
mkdirSync(disk, dir) ==
    IF \E a \in ancestors(dir) : disk[a].kind = "file"
    THEN [error |-> Some("ENOTDIR"), disk |-> disk]
    ELSE [error |-> Absent,
          disk  |-> [q \in DOMAIN disk |-> IF q \in ancestors(dir) THEN Directory ELSE disk[q]]]

ensureDirectoryExists(disk, filepath) ==
    LET dir == dirname(filepath)
    IN  IF dir # <<>> /\ ~existsSync(disk, dir)
        THEN mkdirSync(disk, dir)
        ELSE [error |-> Absent, disk |-> disk]

\* writeFileSync(filepath, content, 'utf8')
writeFileSync(disk, filepath, content) ==
    LET dir == dirname(filepath)
    IN  IF dir # <<>> /\ disk[dir].kind # "directory"
        THEN [error |-> Some("ENOTDIR"), disk |-> disk]
        ELSE IF disk[filepath].kind = "directory"
        THEN [error |-> Some("EISDIR"), disk |-> disk]
        ELSE IF disk[filepath].kind = "file" /\ ~disk[filepath].writable
        THEN [error |-> Some("EACCES"), disk |-> disk]
        ELSE [error |-> Absent, disk |-> [disk EXCEPT ![filepath] = File(content, TRUE)]]

\* writeTextFile: error is the cause of the FileWriteError it throws, if it throws
writeTextFile(disk, filepath, content) ==
    LET ensured == ensureDirectoryExists(disk, filepath)
    IN  IF ensured.error # Absent
        THEN ensured
        ELSE writeFileSync(ensured.disk, filepath, content)

\* !entry.outputFile: the field is undefined or the empty string
noOutputFile(entry) == entry.outputFile = Absent \/ entry.outputFile = Some(<<>>)

\* undoEntry without the existsSync test; a message is its fixed words (text)
\* and the value interpolated into them (with)
undoEntryUnchecked(disk, entry) ==
    IF noOutputFile(entry)
    THEN [success |-> FALSE,
          message |-> [text |-> "Cannot undo: output was to stdout. Original text was:",
                       with |-> entry.original],
          disk    |-> disk]
    ELSE LET written == writeTextFile(disk, entry.outputFile[1], entry.original)
         IN  [success |-> written.error = Absent,
              message |-> IF written.error = Absent
                          THEN [text |-> "Restored original content to",
                                with |-> entry.outputFile[1]]
                          ELSE [text |-> "Failed to restore file:", with |-> written.error],
              disk    |-> written.disk]

\* undoEntry(entry): the value it returns and the disk it leaves
undoEntry(disk, entry) ==
    IF noOutputFile(entry)
    THEN [success |-> FALSE,
          message |-> [text |-> "Cannot undo: output was to stdout. Original text was:",
                       with |-> entry.original],
          disk    |-> disk]
    ELSE IF ~existsSync(disk, entry.outputFile[1])
    THEN [success |-> FALSE,
          message |-> [text |-> "Cannot undo: output file no longer exists:",
                       with |-> entry.outputFile[1]],
          disk    |-> disk]
    ELSE LET written == writeTextFile(disk, entry.outputFile[1], entry.original)
         IN  [success |-> written.error = Absent,
              message |-> IF written.error = Absent
                          THEN [text |-> "Restored original content to",
                                with |-> entry.outputFile[1]]
                          ELSE [text |-> "Failed to restore file:", with |-> written.error],
              disk    |-> written.disk]

-----------------------------------------------------------------------------
(* watcher.ts: watchFile.                                                  *)

\* the digests are HashSpace values, so that two contents can share one
HashSpace == 16

RECURSIVE digestFrom(_, _, _)
digestFrom(content, i, acc) ==
    LET c == content[i]
        charCode ==
            IF c \in LowerSet THEN CHOOSE k \in DOMAIN LowerLetters : LowerLetters[k] = c
            ELSE IF c \in UpperSet
            THEN 26 + (CHOOSE k \in DOMAIN UpperLetters : UpperLetters[k] = c)
            ELSE 53
    IN  IF i > Len(content) THEN acc
        ELSE digestFrom(content, i + 1, (acc * 3 + charCode) % HashSpace)

\* createHash('md5').update(content).digest('hex'): never the empty string
hashContent(content) == <<digestFrom(content, 1, 7)>>

\* readTextFile(options.file): file is Absent when the file does not exist
readTextFile(file) ==
    IF file = Absent THEN [error |-> Some("FileNotFoundError"), content |-> <<>>]
    ELSE [error |-> Absent, content |-> file[1]]

\* processFile without the comparison of currentHash with lastHash
processFileEveryTime(file, lastHash, isProcessing, processed, options, outputWritable) ==
    LET read == readTextFile(file)
        content == read.content
        currentHash == hashContent(content)
        result == processed[<<content, options.level>>]
        failed == options.output # Absent /\ ~outputWritable
        returned(hash, seen, hashAfter, error) ==
            [lastHash |-> hashAfter, isProcessing |-> FALSE,
             run |-> [hash |-> hash, content |-> seen, processed |-> FALSE,
                      delivered |-> Absent, error |-> error]]
    IN  IF isProcessing
        THEN [lastHash |-> lastHash, isProcessing |-> TRUE,
              run |-> [hash |-> <<>>, content |-> Absent, processed |-> FALSE,
                       delivered |-> Absent, error |-> Absent]]
        ELSE IF read.error # Absent
        THEN returned(<<>>, Absent, lastHash, read.error)
        ELSE [lastHash |-> currentHash, isProcessing |-> FALSE,
              run |-> [hash |-> currentHash, content |-> Some(content), processed |-> TRUE,
                       delivered |-> IF failed THEN Absent ELSE Some(result.transformed),
                       error |-> IF failed THEN Some("FileWriteError") ELSE Absent]]

\* processFile(): lastHash and isProcessing after the run, and what the run
\* did: the hash and the content it read, whether it got to processText, the
\* text it wrote or printed, the error it caught.  processed[<<content, level>>]
\* is what processText(content, level) returns
processFile(file, lastHash, isProcessing, processed, options, outputWritable) ==
    LET read == readTextFile(file)
        content == read.content
        currentHash == hashContent(content)
        result == processed[<<content, options.level>>]
        failed == options.output # Absent /\ ~outputWritable
        returned(hash, seen, hashAfter, error) ==
            [lastHash |-> hashAfter, isProcessing |-> FALSE,
             run |-> [hash |-> hash, content |-> seen, processed |-> FALSE,
                      delivered |-> Absent, error |-> error]]
    IN  IF isProcessing
        THEN [lastHash |-> lastHash, isProcessing |-> TRUE,
              run |-> [hash |-> <<>>, content |-> Absent, processed |-> FALSE,
                       delivered |-> Absent, error |-> Absent]]
        ELSE IF read.error # Absent
        THEN returned(<<>>, Absent, lastHash, read.error)
        ELSE IF currentHash = lastHash
        THEN returned(currentHash, Some(content), lastHash, Absent)
        ELSE [lastHash |-> currentHash, isProcessing |-> FALSE,
              run |-> [hash |-> currentHash, content |-> Some(content), processed |-> TRUE,
                       delivered |-> IF failed THEN Absent ELSE Some(result.transformed),
                       error |-> IF failed THEN Some("FileWriteError") ELSE Absent]]

\* onFileChange that leaves the timer it replaces pending
onFileChangeKeepingTimer(timers, debounceTimer, fresh) ==
    [timers |-> timers \cup {fresh}, debounceTimer |-> Some(fresh)]

\* onFileChange(): clearTimeout takes the timer out of the pending timers of
\* the event loop; fresh is the timer that setTimeout(processFile, 300) returns
onFileChange(timers, debounceTimer, fresh) ==
    [timers        |-> (IF debounceTimer # Absent THEN timers \ {debounceTimer[1]} ELSE timers)
                           \cup {fresh},
     debounceTimer |-> Some(fresh)]

\* stop()
stop(timers, debounceTimer, watcher) ==
    [timers  |-> IF debounceTimer # Absent THEN timers \ {debounceTimer[1]} ELSE timers,
     watcher |-> IF watcher # "null" THEN "closed" ELSE watcher]

----------------------------------------------------------------------------
(* State.                                                                  *)

VARIABLES
    tkText,          \* tokenize: the text argument
    tkPos,           \* tokenize: pos
    tkTokens,        \* tokenize: tokens
    pc,              \* processWithRules: the statement it is at
    text,            \* processWithRules: text
    rules,           \* processWithRules: rules
    allTokens,       \* findMatches: allTokens
    sortedRules,     \* findMatches: sortedRules
    ruleIdx,         \* findMatches: how many of sortedRules the outer loop has done
    matches,         \* findMatches: matches
    usedRanges,      \* findMatches: usedRanges
    allMatches,      \* processWithRules: allMatches
    sortedMatches,   \* applyMatches: sortedMatches
    matchIdx,        \* applyMatches: how many of sortedMatches the loop has done
    result,          \* applyMatches: result
    transformed,     \* processWithRules: transformed
    replacements,    \* processWithRules: replacements (RuleEngineResult.matches)
    suggestions,     \* processWithRules: suggestions
    rulesDb,         \* index.ts: rules, the imported rules database
    cachedTokenRules,\* index.ts: cachedTokenRules
    firstResults,    \* what the first processText call with each (text, level) returned
    lastCall,        \* the latest processText call: its text, level and result
    callCount,       \* the number of processText calls made
    cmEntry,         \* the RuleEntry or legacy rule handed to the compiler
    cmLegacy,        \* whether it goes through convertLegacyRule
    cmLevel,         \* convertRuleEntry: level
    cmText,          \* the text the compiled rule is then run on
    cmRule,          \* the compiled TokenRule, once made
    cmResult,        \* processWithRules(cmText, [cmRule]), once made
    cliPc,           \* main: the statement it is at
    cliOptions,      \* main: options (output, quiet)
    inputText,       \* main: inputText
    cliResult,       \* main: result, the ProcessResult of processText
    cliIndex,        \* runInteractive: i
    accepted,        \* runInteractive: accepted
    skipped,         \* runInteractive: skipped
    quit,            \* InteractiveResult.quit
    keys,            \* the keys readKeypress has returned so far
    outputFile,      \* the content of options.output on disk
    stdout,          \* what console.log has printed
    stderr,          \* what console.error has printed
    historyFile,     \* history.json: db.entries
    maxEntries,      \* getConfig().history.maxEntries
    clock,           \* new Date(): the time of the next saveEntry call
    lastSaved,       \* what the latest saveEntry call returned
    dropped,         \* the entries the latest saveEntry call dropped
    disk,            \* node:fs: what is at each path
    undone,          \* undoEntry: the entry of the latest call
    undoResult,      \* undoEntry: what the latest call returned
    undoCalls,       \* the number of undoEntry calls made
    watchPc,         \* watchFile: where the watching is (start, watching, stopped, exited)
    watchOptions,    \* watchFile: options
    watchedFile,     \* the content of options.file, when the file exists
    outputWritable,  \* whether options.output can be written
    lastHash,        \* watchFile: lastHash
    debounceTimer,   \* watchFile: debounceTimer
    isProcessing,    \* watchFile: isProcessing
    watcher,         \* watchFile: watcher (null, open or closed)
    timers,          \* the event loop: the timers set and neither expired nor cleared
    timerCount,      \* the number of setTimeout calls made
    changeEvents,    \* the event loop: change events of the watcher not yet delivered
    burst,           \* the change events delivered since the latest timer expiry
    edits,           \* the number of writes to options.file by other programs
    runs             \* what each processFile run did, the oldest first

tkVars == <<tkText, tkPos, tkTokens>>

engineVars == <<pc, text, rules, allTokens, sortedRules, ruleIdx, matches, usedRanges,
                allMatches, sortedMatches, matchIdx, result, transformed,
                replacements, suggestions>>

levelVars == <<rulesDb, cachedTokenRules, firstResults, lastCall, callCount>>

compileVars == <<cmEntry, cmLegacy, cmLevel, cmText, cmRule, cmResult>>

cliVars == <<cliPc, cliOptions, inputText, cliResult, cliIndex, accepted, skipped, quit, keys,
             outputFile, stdout, stderr>>

histVars == <<historyFile, maxEntries, clock, lastSaved, dropped>>

undoVars == <<disk, undone, undoResult, undoCalls>>

watchVars == <<watchPc, watchOptions, watchedFile, outputWritable, lastHash, debounceTimer,
               isProcessing, watcher, timers, timerCount, changeEvents, burst, edits, runs>>

laterVars == <<compileVars, cliVars, histVars, undoVars, watchVars>>

vars == <<tkVars, engineVars, levelVars, laterVars>>

----------------------------------------------------------------------------
(* The tokenizer as a state machine: one step per iteration of its loop.   *)

MaxTextLen == 4

RECURSIVE TextsUpTo(_, _)
TextsUpTo(alphabet, n) ==
    IF n = 0 THEN {<<>>}
    ELSE LET shorter == TextsUpTo(alphabet, n - 1)
         IN  shorter \cup {Append(s, c) : s \in shorter, c \in alphabet}

TokIdle ==
    /\ tkText = <<>>
    /\ tkPos = 0
    /\ tkTokens = <<>>

EngineIdle ==
    /\ pc = "idle"
    /\ text = <<>>
    /\ rules = <<>>
    /\ allTokens = <<>>
    /\ sortedRules = <<>>
    /\ ruleIdx = 0
    /\ matches = <<>>
    /\ usedRanges = <<>>
    /\ allMatches = <<>>
    /\ sortedMatches = <<>>
    /\ matchIdx = 0
    /\ result = <<>>
    /\ transformed = <<>>
    /\ replacements = <<>>
    /\ suggestions = <<>>

LevelsIdle ==
    /\ rulesDb = [conservative |-> <<>>, moderate |-> <<>>, aggressive |-> <<>>]
    /\ cachedTokenRules = Absent
    /\ firstResults = <<>>
    /\ lastCall = Absent
    /\ callCount = 0

CompileIdle ==
    /\ cmEntry = <<>>
    /\ cmLegacy = FALSE
    /\ cmLevel = "conservative"
    /\ cmText = <<>>
    /\ cmRule = Absent
    /\ cmResult = Absent

CliIdle ==
    /\ cliPc = "idle"
    /\ cliOptions = <<>>
    /\ inputText = <<>>
    /\ cliResult = <<>>
    /\ cliIndex = 0
    /\ accepted = <<>>
    /\ skipped = <<>>
    /\ quit = FALSE
    /\ keys = <<>>
    /\ outputFile = Absent
    /\ stdout = <<>>
    /\ stderr = <<>>

HistIdle ==
    /\ historyFile = <<>>
    /\ maxEntries = 1
    /\ clock = 0
    /\ lastSaved = Absent
    /\ dropped = <<>>

UndoIdle ==
    /\ disk = <<>>
    /\ undone = Absent
    /\ undoResult = Absent
    /\ undoCalls = 0

WatchIdle ==
    /\ watchPc = "idle"
    /\ watchOptions = <<>>
    /\ watchedFile = Absent
    /\ outputWritable = FALSE
    /\ lastHash = <<>>
    /\ debounceTimer = Absent
    /\ isProcessing = FALSE
    /\ watcher = "null"
    /\ timers = {}
    /\ timerCount = 0
    /\ changeEvents = 0
    /\ burst = 0
    /\ edits = 0
    /\ runs = <<>>

LaterIdle == CompileIdle /\ CliIdle /\ HistIdle /\ UndoIdle
    /\ WatchIdle

TokInit ==
    /\ tkText \in TextsUpTo({"i", "M", "4", "'", " ", "\n", "."}, MaxTextLen)
    /\ tkPos = 0
    /\ tkTokens = <<>>
    /\ EngineIdle
    /\ LevelsIdle
    /\ LaterIdle

TokStep ==
    /\ tkPos < Len(tkText)
    /\ LET t == nextToken(tkText, tkPos)
       IN  /\ tkTokens' = Append(tkTokens, t)
           /\ tkPos' = t.end
    /\ UNCHANGED <<tkText, engineVars, levelVars, laterVars>>

TokNext == TokStep

SpecTok == TokInit /\ [][TokNext]_vars

----------------------------------------------------------------------------
(* processWithRules as a state machine: findMatches one rule at a time,    *)
(* applyMatches one splice at a time.                                      *)


\* the words of the texts and of the rules, as character sequences
Words ==
    [would |-> <<"w","o","u","l","d">>,
     Would |-> <<"W","o","u","l","d">>,
     you |-> <<"y","o","u">>,
     mind |-> <<"m","i","n","d">>,
     if |-> <<"i","f">>,
     I |-> <<"I">>,
     think |-> <<"t","h","i","n","k">>,
     THINK |-> <<"T","H","I","N","K">>,
     we |-> <<"w","e">>,
     We |-> <<"W","e">>,
     will |-> <<"w","i","l","l">>,
     believe |-> <<"b","e","l","i","e","v","e">>,
     basically |-> <<"b","a","s","i","c","a","l","l","y">>,
     Id |-> <<"I","'","d">>,
     like |-> <<"l","i","k","e">>,
     to |-> <<"t","o">>,
     should |-> <<"s","h","o","u","l","d">>,
     go |-> <<"g","o">>,
     take |-> <<"t","a","k","e">>,
     this |-> <<"t","h","i","s">>,
     discuss |-> <<"d","i","s","c","u","s","s">>,
     possible |-> <<"p","o","s","s","i","b","l","e">>,
     it |-> <<"i","t">>,
     is |-> <<"i","s">>,
     hundred |-> <<"1","0","0">>,
     percent |-> <<"p","e","r","c","e","n","t">>,
     done |-> <<"d","o","n","e">>,
     fully |-> <<"f","u","l","l","y">>,
     Consider |-> <<"C","o","n","s","i","d","e","r">>,
     removing |-> <<"r","e","m","o","v","i","n","g">>,
     so |-> <<"s","o">>,
     Basically |-> <<"B","a","s","i","c","a","l","l","y">>]

\* a RuleEntry of the rules database
Entry(pattern, replacement, category, suggestion, restructure) ==
    [pattern |-> pattern, replacement |-> replacement, category |-> category,
     suggestion |-> suggestion, restructure |-> restructure]

Entries ==
    [wouldYouMindIf |->
         Entry(joinSpace(<<Words.would, Words.you, Words.mind, Words.if>>), Some(joinSpace(<<Words.Id, Words.like, Words.to>>)), "weak-request", Absent, TRUE),
     IThinkWe |->
         Entry(joinSpace(<<Words.I, Words.think, Words.we>>), Some(Words.We), "hedging", Absent, FALSE),
     IThink |->
         Entry(joinSpace(<<Words.I, Words.think>>), Some(joinSpace(<<Words.I, Words.believe>>)), "hedging", Absent, FALSE),
     thinkWe |->
         Entry(joinSpace(<<Words.think, Words.we>>), Some(joinSpace(<<Words.we, Words.will>>)), "hedging", Absent, FALSE),
     youMindIf |->
         Entry(joinSpace(<<Words.you, Words.mind, Words.if>>), Absent, "weak-request", Some(joinSpace(<<Words.Consider, Words.removing>>)), FALSE),
     basically |->
         Entry(Words.basically, Some(<<>>), "filler", Absent, FALSE),
     IThinkWeShould |->
         Entry(joinSpace(<<Words.I, Words.think, Words.we, Words.should>>), Some(joinSpace(<<Words.We, Words.should>>)), "hedging", Absent, FALSE),
     hundredPercent |->
         Entry(joinSpace(<<Words.hundred, Words.percent>>), Some(Words.fully), "hedging", Absent, FALSE),
     \* an entry whose pattern is a non-empty string with no word in it
     comma |->
         Entry(<<",">>, Some(<<>>), "filler", Absent, FALSE),
     \* the apology rule of the README: "I'm sorry but" is deleted
     ImSorryBut |->
         Entry(<<"I", "'", "m", " ", "s", "o", "r", "r", "y", " ", "b", "u", "t">>, Some(<<>>), "apologizing", Absent, FALSE),
     \* two rules of two words each; occurrences of the first overlap each other
     veryVery |->
         Entry(<<"v", "e", "r", "y", " ", "v", "e", "r", "y">>, Some(<<"v", "e", "r", "y">>), "filler", Absent, FALSE),
     veryGood |->
         Entry(<<"v", "e", "r", "y", " ", "g", "o", "o", "d">>, Some(<<"g", "r", "e", "a", "t">>), "filler", Absent, FALSE)]

\* the legacy rule of the restructuring tests
L_wouldYouMindIf ==
    [pattern     |-> joinSpace(<<Words.would, Words.you, Words.mind, Words.if>>),
     replacement |-> Some(joinSpace(<<Words.Id, Words.like, Words.to>>)),
     level       |-> "moderate",
     category    |-> "weak-request",
     suggestion  |-> Absent]

Catalogue ==
    {Entries.wouldYouMindIf, Entries.IThinkWe, Entries.IThink, Entries.thinkWe, Entries.youMindIf, Entries.basically}

\* the texts: up to MaxPieces pieces joined by single spaces (the empty piece
\* makes leading, trailing and doubled spaces)
Pieces ==
    {joinSpace(<<Words.Would, Words.you, Words.mind, Words.if>>), Words.I, Words.THINK, Words.we,
     joinSpace(<<Words.you, Words.mind, Words.if>>), Words.basically \o <<",">>, <<>>}

MaxPieces == 3

RECURSIVE PieceSeqs(_)
PieceSeqs(n) ==
    IF n = 0 THEN {<<>>}
    ELSE LET shorter == PieceSeqs(n - 1)
         IN  shorter \cup {Append(s, p) : s \in shorter, p \in Pieces}

\* the texts of the tests and of the documented scenarios
Texts ==
    [takeThis |->
         joinSpace(<<Words.Would, Words.you, Words.mind, Words.if, Words.I, Words.take, Words.this>>) \o <<"?">>,
     discussThis |->
         joinSpace(<<Words.Would, Words.you, Words.mind, Words.if, Words.we, Words.discuss, Words.this>>) \o <<"?">>,
     possible |->
         joinSpace(<<Words.Would, Words.you, Words.mind, Words.if, Words.possible>>) \o <<"?">>,
     ITHINK |->
         joinSpace(<<Words.I, Words.THINK, Words.we, Words.should, Words.go>>),
     hundredPercent |->
         joinSpace(<<Words.it, Words.is, Words.hundred, Words.percent, Words.done>>),
     \* the text of the test 'handles punctuation correctly'
     sorryBut |->
         <<"I", "'", "m", " ", "s", "o", "r", "r", "y", ",", " ", "b", "u", "t", " ", "I", " ", "c", "a", "n", "'", "t", " ", "a", "t", "t", "e", "n", "d", ".">>,
     veryVeryVeryGood |->
         <<"v", "e", "r", "y", " ", "v", "e", "r", "y", " ", "v", "e", "r", "y", " ", "g", "o", "o", "d">>,
     \* a line whose colon is aligned with a tab
     tabBeforeColon |->
         joinSpace(<<Words.I, Words.think, Words.we, Words.should>>) \o <<"\t", ":", " ">> \o Words.go,
     basicallyIThinkSo |->
         (Words.Basically \o <<",">>) \o <<" ">> \o joinSpace(<<Words.I, Words.think, Words.so>>),
     \* a draft with three weak phrases, doubled spaces and a space before a comma
     draft |->
         <<"i", " ">> \o Words.think \o <<" ", " ">> \o Words.basically \o <<" ", ",", " ">> \o Words.think \o <<" ">> \o Words.we,
     \* a text with no weak phrase
     weGo |->
         joinSpace(<<Words.We, Words.go>>),
     \* a text with one weak phrase
     IThinkSo |->
         joinSpace(<<Words.I, Words.think, Words.so>>),
     \* a request whose restructured match runs into the next weak phrase
     mindIfIThink |->
         joinSpace(<<Words.Would, Words.you, Words.mind, Words.if, Words.I, Words.think>>)]

Scenarios ==
    ({Texts.takeThis, Texts.discussThis, Texts.possible}
        \X {<<convertRuleEntry(Entries.wouldYouMindIf, "moderate")>>,
            <<convertLegacyRule(L_wouldYouMindIf)>>})
    \cup ({<<>>, <<" ", "\n">>, Texts.takeThis}
            \X {<<convertRuleEntry(Entries.comma, "conservative")>>,
                <<convertRuleEntry(Entries.comma, "conservative"),
                  convertRuleEntry(Entries.wouldYouMindIf, "moderate")>>})
    \cup {<<Texts.ITHINK, <<convertRuleEntry(Entries.IThinkWeShould, "conservative")>>>>,
          <<Texts.hundredPercent, <<convertRuleEntry(Entries.hundredPercent, "conservative")>>>>,
          <<Texts.tabBeforeColon, <<convertRuleEntry(Entries.IThinkWeShould, "conservative")>>>>,
          <<Texts.sorryBut, <<convertRuleEntry(Entries.ImSorryBut, "conservative")>>>>,
          <<Texts.veryVeryVeryGood, <<convertRuleEntry(Entries.veryVery, "conservative"),
                                  convertRuleEntry(Entries.veryGood, "conservative")>>>>,
          <<Texts.veryVeryVeryGood, <<convertRuleEntry(Entries.veryGood, "conservative"),
                                  convertRuleEntry(Entries.veryVery, "conservative")>>>>}

EngineInit ==
    /\ TokIdle
    /\ LevelsIdle
    /\ LaterIdle
    /\ pc = "findMatches"
    \* the texts are joined pieces, the rule lists one or two distinct compiled
    \* entries of the catalogue; then the scenarios of the tests; then every short
    \* text of spaces, tabs, newlines, full stops and a letter, for cleanupText
    /\ \E input \in
           ({joinSpace(ps) : ps \in PieceSeqs(MaxPieces)}
               \X ({<<convertRuleEntry(e, "conservative")>> : e \in Catalogue}
                      \cup {<<convertRuleEntry(p[1], "conservative"),
                              convertRuleEntry(p[2], "moderate")>> :
                               p \in {q \in Catalogue \X Catalogue : q[1] # q[2]}}))
           \cup Scenarios
           \cup (TextsUpTo({" ", "\t", "\n", ".", "a"}, MaxTextLen)
                    \X {<<convertRuleEntry(Entries.basically, "conservative")>>}) :
          /\ text = input[1]
          /\ rules = input[2]
    /\ allTokens = <<>>
    /\ sortedRules = <<>>
    /\ ruleIdx = 0
    /\ matches = <<>>
    /\ usedRanges = <<>>
    /\ allMatches = <<>>
    /\ sortedMatches = <<>>
    /\ matchIdx = 0
    /\ result = <<>>
    /\ transformed = <<>>
    /\ replacements = <<>>
    /\ suggestions = <<>>

\* findMatches, up to the outer loop: tokenize and sort the rules
FindMatchesBegin ==
    /\ pc = "findMatches"
    /\ allTokens' = tokenize(text)
    /\ sortedRules' = sortRules(rules)
    /\ pc' = "scan"
    /\ UNCHANGED <<tkVars, laterVars, levelVars, text, rules, ruleIdx, matches, usedRanges, allMatches,
                   sortedMatches, matchIdx, result, transformed, replacements,
                   suggestions>>

\* one iteration of the outer loop of findMatches
ScanRule ==
    /\ pc = "scan"
    /\ ruleIdx < Len(sortedRules)
    /\ LET acc == scanFrom(sortedRules[ruleIdx + 1], 0, allTokens, getWordTokens(allTokens),
                           [matches |-> matches, usedRanges |-> usedRanges])
       IN  /\ matches' = acc.matches
           /\ usedRanges' = acc.usedRanges
    /\ ruleIdx' = ruleIdx + 1
    /\ UNCHANGED <<tkVars, laterVars, levelVars, pc, text, rules, allTokens, sortedRules, allMatches,
                   sortedMatches, matchIdx, result, transformed, replacements,
                   suggestions>>

\* findMatches returns the sorted matches; processWithRules filters them and
\* applyMatches sorts the replacements right to left
FindMatchesReturn ==
    /\ pc = "scan"
    /\ ruleIdx >= Len(sortedRules)
    /\ allMatches' = sortByStart(matches)
    /\ replacements' = replacementsOf(sortByStart(matches))
    /\ suggestions' = suggestionsOf(sortByStart(matches))
    /\ sortedMatches' = replacementMatches(replacementsOf(sortByStart(matches)))
    /\ result' = text
    /\ pc' = "apply"
    /\ UNCHANGED <<tkVars, laterVars, levelVars, text, rules, allTokens, sortedRules, ruleIdx,
                   matches, usedRanges, matchIdx, transformed>>

\* a plausible slip: the loop of applyMatches does not move on
SpliceAgain ==
    /\ pc = "apply"
    /\ matchIdx < Len(sortedMatches)
    /\ result' = splice(result, sortedMatches[matchIdx + 1])
    /\ UNCHANGED <<tkVars, laterVars, levelVars, pc, text, rules, allTokens, sortedRules,
                   ruleIdx, matches, usedRanges, allMatches, sortedMatches, matchIdx,
                   transformed, replacements, suggestions>>

\* one iteration of the loop of applyMatches
Splice ==
    /\ pc = "apply"
    /\ matchIdx < Len(sortedMatches)
    /\ result' = splice(result, sortedMatches[matchIdx + 1])
    /\ matchIdx' = matchIdx + 1
    /\ UNCHANGED <<tkVars, laterVars, levelVars, pc, text, rules, allTokens, sortedRules, ruleIdx,
                   matches, usedRanges, allMatches, sortedMatches, transformed,
                   replacements, suggestions>>

\* applyMatches cleans the result up and processWithRules returns
Cleanup ==
    /\ pc = "apply"
    /\ matchIdx >= Len(sortedMatches)
    /\ transformed' = cleanupText(result)
    /\ pc' = "done"
    /\ UNCHANGED <<tkVars, laterVars, levelVars, text, rules, allTokens, sortedRules, ruleIdx,
                   matches, usedRanges, allMatches, sortedMatches, matchIdx, result,
                   replacements, suggestions>>

EngineNext == FindMatchesBegin \/ ScanRule \/ FindMatchesReturn \/ Splice \/ Cleanup

SpecEngine == EngineInit /\ [][EngineNext]_vars

----------------------------------------------------------------------------
(* processText calls against the rule cache: one step per call.            *)

Levels == {"conservative", "moderate", "aggressive"}

\* the rules databases: each level lists at most one entry
LevelLists ==
    {<<>>} \cup {<<e>> : e \in {Entries.wouldYouMindIf, Entries.IThinkWe, Entries.IThink, Entries.youMindIf}}

LevelTexts ==
    {joinSpace(<<Words.I, Words.THINK, Words.we>>),
     joinSpace(<<Words.Would, Words.you, Words.mind, Words.if, Words.I, Words.think>>)}

MaxCalls == 2

LevelsInit ==
    /\ TokIdle
    /\ EngineIdle
    /\ LaterIdle
    /\ rulesDb \in ([conservative : LevelLists, moderate : LevelLists, aggressive : LevelLists])
    /\ cachedTokenRules = Absent
    /\ firstResults = [key \in LevelTexts \X Levels |-> Absent]
    /\ lastCall = Absent
    /\ callCount = 0

\* processText(t, l), from the call to the return
ProcessText(t, l) ==
    /\ callCount < MaxCalls
    /\ \E out \in {processText(cachedTokenRules, rulesDb, t, l)} :
           /\ cachedTokenRules' = out.cache
           /\ lastCall' = Some([text |-> t, level |-> l, result |-> out.result])
           /\ firstResults' =
                 IF firstResults[<<t, l>>] = Absent
                 THEN [firstResults EXCEPT ![<<t, l>>] = Some(out.result)]
                 ELSE firstResults
    /\ callCount' = callCount + 1
    /\ UNCHANGED <<tkVars, laterVars, engineVars, rulesDb>>

LevelsNext == \E t \in LevelTexts, l \in Levels : ProcessText(t, l)

SpecLevels == LevelsInit /\ [][LevelsNext]_vars

----------------------------------------------------------------------------
(* The rule compiler: an entry is compiled by convertRuleEntry or          *)
(* convertLegacyRule and the compiled rule is run on a text.               *)



CompilePatterns == {Words.basically, joinSpace(<<Words.I, Words.think>>)}

\* replacement: absent, '', 'We', ' I  believe ' and ' '
CompileReplacements ==
    {Absent, Some(<<>>), Some(Words.We),
     Some(<<" ">> \o Words.I \o <<" ", " ">> \o Words.believe \o <<" ">>), Some(<<" ">>)}

\* suggestion: absent, '' and 'Consider removing'
CompileSuggestions == {Absent, Some(<<>>), Some(joinSpace(<<Words.Consider, Words.removing>>))}

CompileInit ==
    /\ TokIdle
    /\ UndoIdle
    /\ WatchIdle
    /\ EngineIdle
    /\ LevelsIdle
    /\ CliIdle
    /\ HistIdle
    \* a RuleEntry with the level of its list, or a legacy rule with its own level
    /\ \E input \in
           ([pattern : CompilePatterns, replacement : CompileReplacements,
             category : {"filler"}, suggestion : CompileSuggestions,
             restructure : BOOLEAN] \X Levels)
           \cup {<<l, l.level>> :
                    l \in [pattern : CompilePatterns, replacement : CompileReplacements,
                           level : Levels, category : {"filler"},
                           suggestion : CompileSuggestions]} :
          /\ cmEntry = input[1]
          /\ cmLevel = input[2]
    /\ cmLegacy = ("level" \in DOMAIN cmEntry)
    /\ cmText = Texts.basicallyIThinkSo
    /\ cmRule = Absent
    /\ cmResult = Absent

ConvertRuleEntry ==
    /\ ~cmLegacy
    /\ cmRule = Absent
    /\ cmRule' = Some(convertRuleEntry(cmEntry, cmLevel))
    /\ UNCHANGED <<tkVars, undoVars, watchVars, engineVars, levelVars, cliVars, histVars,
                   cmEntry, cmLegacy, cmLevel, cmText, cmResult>>

ConvertLegacyRule ==
    /\ cmLegacy
    /\ cmRule = Absent
    /\ cmRule' = Some(convertLegacyRule(cmEntry))
    /\ UNCHANGED <<tkVars, undoVars, watchVars, engineVars, levelVars, cliVars, histVars,
                   cmEntry, cmLegacy, cmLevel, cmText, cmResult>>

\* processWithRules(cmText, [cmRule])
ProcessCompiled ==
    /\ cmRule # Absent
    /\ cmResult = Absent
    /\ \E out \in {processWithRules(cmText, <<cmRule[1]>>)} : cmResult' = Some(out)
    /\ UNCHANGED <<tkVars, undoVars, watchVars, engineVars, levelVars, cliVars, histVars,
                   cmEntry, cmLegacy, cmLevel, cmText, cmRule>>

CompileNext == ConvertRuleEntry \/ ConvertLegacyRule \/ ProcessCompiled

SpecCompile == CompileInit /\ [][CompileNext]_vars

----------------------------------------------------------------------------
(* speak-strong.ts and interactive.ts: main in interactive mode, one step  *)
(* per key read and one for what main does once runInteractive returned.   *)

\* the rules database of the runs
CliDatabase ==
    [conservative |-> <<Entries.IThink, Entries.basically, Entries.thinkWe>>,
     moderate     |-> <<Entries.wouldYouMindIf>>,
     aggressive   |-> <<Entries.youMindIf>>]

\* the results that reach saveEntry
SavedResults ==
    {processText(Absent, CliDatabase, t, "moderate").result : t \in {Texts.draft, Texts.IThinkSo}}

\* what a terminal in raw mode can send: the five keys of the prompt, Ctrl+C,
\* another key, and two keys arriving as one chunk
Keys == {"a", "s", "A", "S", "q", CtrlC, "x", "as"}

MaxKeys == 4

\* getConfig().history.maxEntries of DEFAULT_CONFIG
DefaultMaxEntries == 100

CliInit ==
    /\ TokIdle
    /\ UndoIdle
    /\ WatchIdle
    /\ EngineIdle
    /\ LevelsIdle
    /\ CompileIdle
    /\ cliPc = "start"
    /\ cliOptions \in ([output : {Absent, Some(<<"o", "u", "t">>)}, quiet : BOOLEAN, level : {"moderate"}])
    /\ inputText \in {Texts.draft, Texts.IThinkSo, Texts.weGo, Texts.mindIfIThink}
    /\ cliResult = <<>>
    /\ cliIndex = 0
    /\ accepted = <<>>
    /\ skipped = <<>>
    /\ quit = FALSE
    /\ keys = <<>>
    /\ outputFile = Absent
    /\ stdout = <<>>
    /\ stderr = <<>>
    /\ historyFile = <<>>
    /\ maxEntries = DefaultMaxEntries
    /\ clock = 0
    /\ lastSaved = Absent
    /\ dropped = <<>>

\* main: const result = processText(inputText, level)
ProcessInput ==
    /\ cliPc = "start"
    /\ \E out \in {processText(Absent, CliDatabase, inputText, cliOptions.level)} :
           cliResult' = out.result
    /\ cliPc' = "main"
    /\ UNCHANGED <<tkVars, undoVars, watchVars, engineVars, levelVars, compileVars, histVars, cliOptions,
                   inputText, cliIndex, accepted, skipped, quit, keys, outputFile,
                   stdout, stderr>>

\* runInteractive up to its first prompt, or to its return when there is
\* nothing to review
RunInteractive ==
    /\ cliPc = "main"
    /\ cliPc' = IF Len(sortReplacements(cliResult.replacements)) = 0
                THEN "returned" ELSE "prompt"
    /\ UNCHANGED <<tkVars, undoVars, watchVars, engineVars, levelVars, compileVars, histVars, cliOptions,
                   inputText, cliResult, cliIndex, accepted, skipped, quit, keys,
                   outputFile, stdout, stderr>>

\* promptForAction reads a key; runInteractive acts on the action
Keypress(key) ==
    /\ cliPc = "prompt"
    /\ Len(keys) < MaxKeys
    /\ keys' = Append(keys, key)
    /\ LET action == parseKeypress(key)
           pending == sortReplacements(cliResult.replacements)
           match == pending[cliIndex + 1]
           rest == SubSeq(pending, cliIndex + 2, Len(pending))
           nextPc == IF cliIndex + 1 < Len(pending) THEN "prompt" ELSE "returned"
       IN  IF action = Absent
           THEN UNCHANGED <<cliPc, cliIndex, accepted, skipped, quit>>
           ELSE IF action[1] = "accept"
           THEN /\ accepted' = Append(accepted, match)
                /\ cliIndex' = cliIndex + 1
                /\ cliPc' = nextPc
                /\ UNCHANGED <<skipped, quit>>
           ELSE IF action[1] = "skip"
           THEN /\ skipped' = Append(skipped, match)
                /\ cliIndex' = cliIndex + 1
                /\ cliPc' = nextPc
                /\ UNCHANGED <<accepted, quit>>
           ELSE IF action[1] = "accept-all"
           THEN /\ accepted' = Append(accepted, match) \o rest
                /\ cliPc' = "returned"
                /\ UNCHANGED <<cliIndex, skipped, quit>>
           ELSE IF action[1] = "skip-all"
           THEN /\ skipped' = Append(skipped, match) \o rest
                /\ cliPc' = "returned"
                /\ UNCHANGED <<cliIndex, accepted, quit>>
           ELSE /\ skipped' = skipped \o <<match>> \o rest
                /\ quit' = TRUE
                /\ cliPc' = "returned"
                /\ UNCHANGED <<cliIndex, accepted>>
    /\ UNCHANGED <<tkVars, undoVars, watchVars, engineVars, levelVars, compileVars, histVars, cliOptions,
                   inputText, cliResult, outputFile, stdout, stderr>>

\* outputResult(result, options, interactiveResult), then saveEntry when
\* something was accepted
OutputAndSave ==
    LET showDiff == ~cliOptions.quiet
        interactiveResult == [accepted |-> accepted, skipped |-> skipped, quit |-> quit]
        output == formatInteractiveOutput(cliResult, interactiveResult, showDiff)
        stats == IF cliOptions.quiet THEN <<>>
                 ELSE <<[kind |-> "stats",
                         body |-> <<Len(accepted), Len(skipped),
                                    IF cliOptions.level = "aggressive"
                                    THEN Len(cliResult.suggestions) ELSE 0>>]>>
        entryData ==
            createEntryFromResult(
                [original     |-> cliResult.original,
                 transformed  |-> applyAcceptedReplacements(cliResult.original, accepted),
                 replacements |-> accepted,
                 suggestions  |-> cliResult.suggestions],
                cliOptions.level,
                [inputFile    |-> Absent,
                 inputMessage |-> Some(cliResult.original),
                 outputFile   |-> cliOptions.output])
    IN  /\ IF cliOptions.output # Absent
           THEN /\ outputFile' =
                      Some(applyAcceptedReplacements(cliResult.original, accepted))
                /\ stderr' = stderr
                      \o (IF cliOptions.quiet THEN <<>>
                          ELSE <<[kind |-> "info", body |-> cliOptions.output[1]],
                                 [kind |-> "output", body |-> output]>>)
                      \o stats
                /\ UNCHANGED stdout
           ELSE /\ stdout' = Append(stdout, output)
                /\ stderr' = stderr \o stats
                /\ UNCHANGED outputFile
        /\ IF Len(accepted) > 0
           THEN \E id \in {"k3x9a1"} :
                    /\ historyFile' =
                          saveEntry(historyFile, maxEntries, fullEntryOf(entryData, id, clock))
                    /\ lastSaved' = Some(fullEntryOf(entryData, id, clock))
                    /\ dropped' = sliceFrom(<<fullEntryOf(entryData, id, clock)>> \o historyFile,
                                            maxEntries)
                    /\ clock' = clock + 1
           ELSE UNCHANGED <<historyFile, lastSaved, dropped, clock>>
        /\ UNCHANGED maxEntries

\* a plausible slip: main does not look at interactiveResult.quit
AfterInteractiveIgnoringQuit ==
    /\ cliPc = "returned"
    /\ cliPc' = "exit"
    /\ OutputAndSave
    /\ UNCHANGED <<tkVars, undoVars, watchVars, engineVars, levelVars, compileVars, cliOptions, inputText,
                   cliResult, cliIndex, accepted, skipped, quit, keys>>

\* main, from the return of runInteractive to the end of the run
AfterInteractive ==
    /\ cliPc = "returned"
    /\ cliPc' = "exit"
    /\ IF quit
       THEN /\ stderr' = Append(stderr, [kind |-> "notice", body |-> "Quitting. No changes applied."])
            /\ UNCHANGED <<outputFile, stdout, histVars>>
       ELSE OutputAndSave
    /\ UNCHANGED <<tkVars, undoVars, watchVars, engineVars, levelVars, compileVars, cliOptions, inputText,
                   cliResult, cliIndex, accepted, skipped, quit, keys>>

CliNext == ProcessInput \/ RunInteractive \/ (\E key \in Keys : Keypress(key)) \/ AfterInteractive

SpecCli == CliInit /\ [][CliNext]_vars

----------------------------------------------------------------------------
(* history.ts: saveEntry calls, one per run of the program; between runs   *)
(* the limit of config.json may be edited.                                 *)

MaxSaves == 4

MaxLimit == 3

HistInit ==
    /\ TokIdle
    /\ UndoIdle
    /\ WatchIdle
    /\ EngineIdle
    /\ LevelsIdle
    /\ CompileIdle
    /\ CliIdle
    /\ historyFile = <<>>
    /\ maxEntries \in 1..MaxLimit
    /\ clock = 0
    /\ lastSaved = Absent
    /\ dropped = <<>>

\* saveEntry(entry), from loadHistory to saveHistory
SaveEntry(entry, id) ==
    /\ clock < MaxSaves
    /\ historyFile' = saveEntry(historyFile, maxEntries, fullEntryOf(entry, id, clock))
    /\ lastSaved' = Some(fullEntryOf(entry, id, clock))
    /\ dropped' = sliceFrom(<<fullEntryOf(entry, id, clock)>> \o historyFile, maxEntries)
    /\ clock' = clock + 1
    /\ UNCHANGED <<tkVars, undoVars, watchVars, engineVars, levelVars, compileVars, cliVars, maxEntries>>

\* history.maxEntries of config.json is edited to another positive integer
EditMaxEntries(n) ==
    /\ n # maxEntries
    /\ maxEntries' = n
    /\ UNCHANGED <<tkVars, undoVars, watchVars, engineVars, levelVars, compileVars, cliVars, historyFile,
                   clock, lastSaved, dropped>>

HistNext ==
    \* the entries that main hands to saveEntry, and two values of generateId()
    \/ \E entry \in {createEntryFromResult(r, "moderate",
                                            [inputFile    |-> Absent,
                                             inputMessage |-> Some(r.original),
                                             outputFile   |-> Absent]) :
                          r \in SavedResults},
          id \in {"k3x9a1", "p0q7zz"} :
           SaveEntry(entry, id)
    \/ \E n \in 1..MaxLimit : EditMaxEntries(n)

SpecHistory == HistInit /\ [][HistNext]_vars

-----------------------------------------------------------------------------
(* undoEntry on a disk that the program and other programs also change.    *)

\* an output file, a directory and an output file in the directory
Paths == {<<"out.txt">>, <<"drafts">>, <<"drafts", "mail.txt">>}

\* the history entries handed to undoEntry
UndoEntries ==
    {fullEntryOf(createEntryFromResult(r, "moderate",
                                       [inputFile    |-> Absent,
                                        inputMessage |-> Some(r.original),
                                        outputFile   |-> o]),
                 "k3x9a1", 0) :
        r \in SavedResults,
        o \in {Absent, Some(<<>>)} \cup {Some(path) : path \in Paths}}

\* the disks in which whatever has something in it is a directory; a file holds
\* the original or the transformed text of an entry
Disks ==
    {d \in [Paths -> {Missing, Directory}
                        \cup {File(c, w) : c \in {e.original : e \in UndoEntries}
                                                 \cup {e.transformed : e \in UndoEntries},
                                          w \in BOOLEAN}] :
        \A path \in Paths :
            (existsSync(d, path) /\ dirname(path) # <<>>) => d[dirname(path)] = Directory}

MaxUndos == 2

UndoInit ==
    /\ TokIdle
    /\ EngineIdle
    /\ LevelsIdle
    /\ CompileIdle
    /\ CliIdle
    /\ HistIdle
    /\ WatchIdle
    /\ disk \in Disks
    /\ undone = Absent
    /\ undoResult = Absent
    /\ undoCalls = 0

\* one call of undoEntry(entry)
UndoEntry(entry) ==
    /\ undoCalls < MaxUndos
    /\ \E out \in {undoEntry(disk, entry)} :
           /\ disk' = out.disk
           /\ undoResult' = Some([success |-> out.success, message |-> out.message])
    /\ undone' = Some(entry)
    /\ undoCalls' = undoCalls + 1
    /\ UNCHANGED <<tkVars, engineVars, levelVars, compileVars, cliVars, histVars, watchVars>>

\* outputResult writes the transformed text of a run to its output file
WriteOutput(entry) ==
    /\ ~noOutputFile(entry)
    /\ disk' = writeTextFile(disk, entry.outputFile[1], entry.transformed).disk
    /\ disk' # disk
    /\ UNCHANGED <<tkVars, engineVars, levelVars, compileVars, cliVars, histVars, watchVars,
                   undone, undoResult, undoCalls>>

\* another program removes a file, or a directory and what is in it
RemovePath(path) ==
    /\ existsSync(disk, path)
    /\ disk' = [q \in Paths |-> IF path \in ancestors(q) THEN Missing ELSE disk[q]]
    /\ UNCHANGED <<tkVars, engineVars, levelVars, compileVars, cliVars, histVars, watchVars,
                   undone, undoResult, undoCalls>>

UndoNext ==
    \/ \E entry \in UndoEntries : UndoEntry(entry)
    \/ \E entry \in UndoEntries : WriteOutput(entry)
    \/ \E path \in Paths : RemovePath(path)

SpecUndo == UndoInit /\ [][UndoNext]_vars

-----------------------------------------------------------------------------
(* watchFile: the first processFile run, the change events of the watcher, *)
(* the debounce timer and stop().                                          *)

MaxEdits == 3

\* what the watched file can hold; two of the texts have the same digest
WatchTexts == {Texts.IThinkSo, Texts.weGo, Texts.possible}

\* processText on each of them, worked out once
WatchResults ==
    [input \in WatchTexts \X {"moderate"} |->
        processText(Absent, CliDatabase, input[1], input[2]).result]

WatchInit ==
    /\ TokIdle
    /\ EngineIdle
    /\ LevelsIdle
    /\ CompileIdle
    /\ CliIdle
    /\ HistIdle
    /\ UndoIdle
    /\ watchPc = "start"
    /\ watchOptions \in [output : {Absent, Some(<<"out.txt">>)}, level : {"moderate"}]
    /\ watchedFile \in {Absent} \cup {Some(t) : t \in WatchTexts}
    /\ outputWritable \in BOOLEAN
    /\ lastHash = <<>>
    /\ debounceTimer = Absent
    /\ isProcessing = FALSE
    /\ watcher = "null"
    /\ timers = {}
    /\ timerCount = 0
    /\ changeEvents = 0
    /\ burst = 0
    /\ edits = 0
    /\ runs = <<>>

\* watchFile(options) up to its return: processFile() and then watch(), which
\* throws when the file does not exist, and then the process exits
StartWatching ==
    /\ watchPc = "start"
    /\ \E out \in {processFile(watchedFile, lastHash, isProcessing, WatchResults,
                               watchOptions, outputWritable)} :
           /\ lastHash' = out.lastHash
           /\ isProcessing' = out.isProcessing
           /\ runs' = Append(runs, out.run)
    /\ IF watchedFile = Absent
       THEN watchPc' = "exited" /\ watcher' = watcher
       ELSE watchPc' = "watching" /\ watcher' = "open"
    /\ UNCHANGED <<tkVars, engineVars, levelVars, compileVars, cliVars, histVars, undoVars,
                   watchOptions, watchedFile, outputWritable, debounceTimer, timers,
                   timerCount, changeEvents, burst, edits>>

\* another program saves the watched file, with new or with the same content, or
\* removes it; an open watcher gets a change event
EditFile(file) ==
    /\ watchPc \in {"watching", "stopped"}
    /\ edits < MaxEdits
    /\ watchedFile' = file
    /\ edits' = edits + 1
    /\ changeEvents' = IF watcher = "open" THEN changeEvents + 1 ELSE changeEvents
    /\ UNCHANGED <<tkVars, engineVars, levelVars, compileVars, cliVars, histVars, undoVars,
                   watchPc, watchOptions, outputWritable, lastHash, debounceTimer,
                   isProcessing, watcher, timers, timerCount, burst, runs>>

\* the watcher delivers a change event: onFileChange()
OnFileChange ==
    /\ watcher = "open"
    /\ changeEvents > 0
    /\ \E out \in {onFileChange(timers, debounceTimer, timerCount + 1)} :
           /\ timers' = out.timers
           /\ debounceTimer' = out.debounceTimer
    /\ timerCount' = timerCount + 1
    /\ changeEvents' = changeEvents - 1
    /\ burst' = burst + 1
    /\ UNCHANGED <<tkVars, engineVars, levelVars, compileVars, cliVars, histVars, undoVars,
                   watchPc, watchOptions, watchedFile, outputWritable, lastHash,
                   isProcessing, watcher, edits, runs>>

\* a pending timer expires, 300 ms after it was set: processFile()
TimerExpires(timer) ==
    /\ timer \in timers
    /\ timers' = timers \ {timer}
    /\ \E out \in {processFile(watchedFile, lastHash, isProcessing, WatchResults,
                               watchOptions, outputWritable)} :
           /\ lastHash' = out.lastHash
           /\ isProcessing' = out.isProcessing
           /\ runs' = Append(runs, out.run)
    /\ burst' = 0
    /\ UNCHANGED <<tkVars, engineVars, levelVars, compileVars, cliVars, histVars, undoVars,
                   watchPc, watchOptions, watchedFile, outputWritable, debounceTimer,
                   watcher, timerCount, changeEvents, edits>>

\* the SIGINT handler of main calls stop()
Stop ==
    /\ watchPc = "watching"
    /\ \E out \in {stop(timers, debounceTimer, watcher)} :
           /\ timers' = out.timers
           /\ watcher' = out.watcher
    /\ watchPc' = "stopped"
    /\ UNCHANGED <<tkVars, engineVars, levelVars, compileVars, cliVars, histVars, undoVars,
                   watchOptions, watchedFile, outputWritable, lastHash, debounceTimer,
                   isProcessing, timerCount, changeEvents, burst, edits, runs>>

WatchNext ==
    \/ StartWatching
    \/ \E file \in {Absent} \cup {Some(t) : t \in WatchTexts} : EditFile(file)
    \/ OnFileChange
    \/ \E timer \in 1..MaxEdits + 1 : TimerExpires(timer)
    \/ Stop

SpecWatch == WatchInit /\ [][WatchNext]_vars

----------------------------------------------------------------------------
(* Properties.                                                             *)

\* the half-open ranges of two matches share no offset
disjoint(a, b) == a.textEnd <= b.textStart \/ b.textEnd <= a.textStart

\* C1: any two distinct matches returned by findMatches have disjoint
\* half-open ranges [textStart, textEnd), also when a restructuring capture
\* extended an end offset over a following subject pronoun.
C1_MatchesDisjoint ==
    pc \in {"apply", "done"} =>
        \A a, b \in 1..Len(allMatches) :
            a # b => disjoint(allMatches[a], allMatches[b])

\* C2: tokenize partitions the text: the first token starts at 0, each token
\* starts where the previous one ends, every token is non-empty and its text
\* is text[start:end]; when the loop ends the last token ends at the length
\* of the text and the token texts concatenate to the text.
C2_TokensPartitionText ==
    /\ \A k \in 1..Len(tkTokens) :
          LET t == tkTokens[k]
          IN  /\ t.start = (IF k = 1 THEN 0 ELSE tkTokens[k - 1].end)
              /\ t.start < t.end
              /\ t.text = slice(tkText, t.start, t.end)
    /\ tkPos = (IF tkTokens = <<>> THEN 0 ELSE tkTokens[Len(tkTokens)].end)
    /\ tkPos >= Len(tkText) =>
          /\ tkPos = Len(tkText)
          /\ tokensToText(tkTokens) = tkText
          /\ tkTokens = tokenize(tkText)

\* C2 witness: a finished tokenization that holds a contraction and a word
\* whose trailing apostrophe was split off as punctuation
C2_Witness ==
    /\ tkPos = Len(tkText)
    /\ \E k \in 1..Len(tkTokens) : tkTokens[k].type = "contraction"
    /\ \E k \in 2..Len(tkTokens) :
          /\ tkTokens[k].type = "punctuation"
          /\ tkTokens[k].text = <<"'">>
          /\ tkTokens[k - 1].type \in {"word", "contraction"}

\* the word and contraction tokens of the text being processed
wordTokensOfText == getWordTokens(allTokens)

\* short is a leading or a trailing contiguous part of long, and shorter
properAffix(short, long) ==
    /\ 0 < Len(short)
    /\ Len(short) < Len(long)
    /\ \/ SubSeq(long, 1, Len(short)) = short
       \/ SubSeq(long, Len(long) - Len(short) + 1, Len(long)) = short

\* C3: two rules, the shorter pattern a leading or trailing part of the longer:
\* wherever the longer phrase occurs, findMatches returns the longer rule's
\* match for that occurrence and no match of the shorter rule overlaps it,
\* whichever order the rules are listed in.
C3_LongerPatternWins ==
    (pc \in {"apply", "done"} /\ Len(rules) = 2) =>
        \A l, sh \in 1..2 :
            properAffix(rules[sh].pattern, rules[l].pattern) =>
                \A i \in 0..(Len(wordTokensOfText) - 1) :
                    matchesPattern(wordTokensOfText, i, rules[l].pattern).matched =>
                        \E k \in 1..Len(allMatches) :
                            /\ allMatches[k].rule = rules[l]
                            /\ allMatches[k].tokenStart = i
                            /\ \A j \in 1..Len(allMatches) :
                                  allMatches[j].rule = rules[sh] =>
                                      disjoint(allMatches[j], allMatches[k])

\* needle is a substring of hay
occursIn(needle, hay) ==
    \E q \in 0..(Len(hay) - Len(needle)) : slice(hay, q, q + Len(needle)) = needle

hasCasedLetter(word) == \E i \in 1..Len(word) : word[i] \in LowerSet \cup UpperSet

\* the case class of the claim, applied to a replacement phrase
caseClassApplied(firstWord, replacement) ==
    IF Len(firstWord) >= 2 /\ hasCasedLetter(firstWord) /\ firstWord = toUpperCase(firstWord)
    THEN toUpperCase(replacement)
    ELSE IF firstWord = toLowerCase(firstWord) /\ hasCasedLetter(firstWord)
    THEN toLowerCase(replacement)
    ELSE IF firstWord[1] \in UpperSet /\ Tail(firstWord) = toLowerCase(Tail(firstWord))
    THEN capitalizeFirst(replacement)
    ELSE replacement

\* C7: the replacement text of a non-null, non-empty replacement takes the case
\* class of the first matched word: all upper (two or more characters), else all
\* lower, else capitalized (first character an uppercase letter, the rest
\* lowercase); any other first word leaves the replacement unchanged.
C7_ReplacementTakesCaseClass ==
    pc \in {"apply", "done"} =>
        \A k \in 1..Len(allMatches) :
            LET m == allMatches[k]
            IN  (m.rule.replacement # Absent /\ m.rule.replacement[1] # <<>>) =>
                    m.replacementText =
                        Some(caseClassApplied(wordTokensOfText[m.tokenStart + 1].text,
                                              joinSpace(m.rule.replacement[1])))

IThinkWeShouldCase ==
    /\ pc \in {"apply", "done"}
    /\ text = Texts.ITHINK
    /\ rules = <<convertRuleEntry(Entries.IThinkWeShould, "conservative")>>

\* C8 as stated: for "I THINK we should go" and the rule "I think we should" ->
\* "We should" the replacement is rendered in the ALL-CAPS class, "WE SHOULD".
C8_RenderedAllCaps ==
    IThinkWeShouldCase =>
        /\ Len(allMatches) = 1
        /\ allMatches[1].replacementText = Some(joinSpace(<<toUpperCase(Words.we), toUpperCase(Words.should)>>))

\* C8 amended: the first matched word "I" is a single character, which is never
\* classed ALL-CAPS; the replacement is rendered capitalized, "We should", and
\* the transformed text is "We should go".
C8_RenderedCapitalized ==
    IThinkWeShouldCase =>
        /\ Len(allMatches) = 1
        /\ allMatches[1].textStart = 0
        /\ allMatches[1].textEnd = 17
        /\ allMatches[1].replacementText = Some(joinSpace(<<Words.We, Words.should>>))
        /\ pc = "done" => transformed = joinSpace(<<Words.We, Words.should, Words.go>>)

C8_Witness == IThinkWeShouldCase /\ pc = "done" /\ Len(allMatches) = 1

\* the first word or contraction token that starts at or after offset
firstWordAfter(offset) ==
    SelectSeq(wordTokensOfText, LAMBDA t : t.start >= offset)

\* C9: a match of a rule that declares the subject capture ends at the end of
\* the first word/contraction token after the pattern when that token is one of
\* i, we, you, he, she, it, they (the pronoun is part of the replaced phrase and
\* leaves the text), and at the end of the last pattern word otherwise.
C9_SubjectPronounCaptured ==
    /\ pc \in {"apply", "done"} =>
          \A k \in 1..Len(allMatches) :
              LET m == allMatches[k]
                  patternEnd == wordTokensOfText[m.tokenEnd].end
                  after == firstWordAfter(patternEnd)
              IN  m.rule.restructure =>
                      /\ m.textEnd =
                            IF after # <<>> /\ after[1].normalized \in SUBJECT_PRONOUNS
                            THEN after[1].end
                            ELSE patternEnd
                      /\ m.matchedTokens[Len(m.matchedTokens)].end = m.textEnd
                      /\ tokensToText(m.matchedTokens) = slice(text, m.textStart, m.textEnd)
    /\ (pc = "done" /\ rules = <<convertRuleEntry(Entries.wouldYouMindIf, "moderate")>>) =>
          /\ text = Texts.takeThis =>
                transformed = joinSpace(<<Words.Id, Words.like, Words.to, Words.take, Words.this>>) \o <<"?">>
          /\ text = Texts.possible =>
                transformed = joinSpace(<<Words.Id, Words.like, Words.to, Words.possible>>) \o <<"?">>

C9_Witness ==
    /\ pc = "done"
    /\ text = Texts.takeThis
    /\ Len(allMatches) = 1
    /\ allMatches[1].rule.restructure
    /\ allMatches[1].textEnd = 19

\* C10: a rule made by convertLegacyRule from "would you mind if" ->
\* "I'd like to" carries the subject restructuring: "Would you mind if I take
\* this?" becomes "I'd like to take this?" and "Would you mind if we discuss
\* this?" becomes "I'd like to discuss this?".
C10_LegacyRuleRestructures ==
    (pc = "done" /\ rules = <<convertLegacyRule(L_wouldYouMindIf)>>) =>
        /\ text = Texts.takeThis =>
              transformed = joinSpace(<<Words.Id, Words.like, Words.to, Words.take, Words.this>>) \o <<"?">>
        /\ text = Texts.discussThis =>
              transformed = joinSpace(<<Words.Id, Words.like, Words.to, Words.discuss, Words.this>>) \o <<"?">>

\* the matches of a ProcessResult
matchesOfResult(r) == r.replacements \o r.suggestions

\* the same start, end, rule pattern and replacement text
sameMatch(a, b) ==
    /\ a.start = b.start
    /\ a.end = b.end
    /\ a.rule.pattern = b.rule.pattern
    /\ a.replacement = b.replacement

producedIn(m, r) ==
    \E k \in 1..Len(matchesOfResult(r)) : sameMatch(m, matchesOfResult(r)[k])

overlappedIn(m, r) ==
    \E k \in 1..Len(matchesOfResult(r)) :
        m.start < matchesOfResult(r)[k].end /\ matchesOfResult(r)[k].start < m.end

LevelPairs ==
    {<<"conservative", "moderate">>, <<"conservative", "aggressive">>,
     <<"moderate", "aggressive">>}

\* C4 as stated: each match that processText produces at a level is also
\* produced, for the same text, at every stricter level.
C4_MatchesCumulative ==
    \A t \in LevelTexts, lv \in LevelPairs :
        (firstResults[<<t, lv[1]>>] # Absent /\ firstResults[<<t, lv[2]>>] # Absent) =>
            \A k \in 1..Len(matchesOfResult(firstResults[<<t, lv[1]>>][1])) :
                producedIn(matchesOfResult(firstResults[<<t, lv[1]>>][1])[k],
                           firstResults[<<t, lv[2]>>][1])

\* C4 amended: each match produced at a level is, at every stricter level,
\* either produced again or overlapped by a match produced there (the rules
\* added by the stricter level can take its place).
C4_MatchesCumulativeOrOverlapped ==
    \A t \in LevelTexts, lv \in LevelPairs :
        (firstResults[<<t, lv[1]>>] # Absent /\ firstResults[<<t, lv[2]>>] # Absent) =>
            \A k \in 1..Len(matchesOfResult(firstResults[<<t, lv[1]>>][1])) :
                LET m == matchesOfResult(firstResults[<<t, lv[1]>>][1])[k]
                IN  \/ producedIn(m, firstResults[<<t, lv[2]>>][1])
                    \/ overlappedIn(m, firstResults[<<t, lv[2]>>][1])

\* C4 witness: a conservative match that the moderate level does not produce
C4_Witness ==
    \E t \in LevelTexts :
        /\ firstResults[<<t, "conservative">>] # Absent
        /\ firstResults[<<t, "moderate">>] # Absent
        /\ \E k \in 1..Len(matchesOfResult(firstResults[<<t, "conservative">>][1])) :
              LET m == matchesOfResult(firstResults[<<t, "conservative">>][1])[k]
              IN  /\ ~producedIn(m, firstResults[<<t, "moderate">>][1])
                  /\ overlappedIn(m, firstResults[<<t, "moderate">>][1])

\* C6: the result of a processText call depends only on its text and level: a
\* repeated call returns what the first call with that text and level returned;
\* the cache is built by the first call and afterwards always holds the rule
\* lists compiled from the database, which no call changes.
C6_ResultDependsOnTextAndLevel ==
    /\ lastCall # Absent =>
          firstResults[<<lastCall[1].text, lastCall[1].level>>] = Some(lastCall[1].result)
    /\ (cachedTokenRules # Absent) <=> (callCount > 0)
    /\ cachedTokenRules # Absent =>
          cachedTokenRules = buildTokenRules(Absent, rulesDb)

\* C6 witness: a call repeated after the cache was built, with a replacement
C6_Witness ==
    /\ lastCall # Absent
    /\ callCount > Cardinality({key \in LevelTexts \X Levels : firstResults[key] # Absent})
    /\ lastCall[1].level = "moderate"
    /\ Len(lastCall[1].result.replacements) > 0
    /\ Len(cachedTokenRules[1].moderate) > 0

\* the characters of s that are not whitespace
withoutSpaces(s) == SelectSeq(s, LAMBDA c : ~IsSpace(c))

RECURSIVE concatAll(_)
concatAll(words) == IF words = <<>> THEN <<>> ELSE Head(words) \o concatAll(Tail(words))

\* the number of maximal runs of non-whitespace characters of s
runCount(s) ==
    Cardinality({i \in 1..Len(s) : ~IsSpace(s[i]) /\ (i = 1 \/ IsSpace(s[i - 1]))})

\* words is the whitespace-split word sequence of s
isWordSplitOf(words, s) ==
    /\ \A i \in 1..Len(words) : words[i] # <<>> /\ withoutSpaces(words[i]) = words[i]
    /\ concatAll(words) = withoutSpaces(s)
    /\ Len(words) = runCount(s)

\* the entry declares a suggestion (a non-empty string)
hasSuggestion(entry) == entry.suggestion # Absent /\ entry.suggestion[1] # <<>>

\* C11: convertRuleEntry compiles the replacement: a suggestion and no
\* replacement field give null (suggestion-only, never applied); otherwise an
\* absent or empty replacement gives the empty sequence (deletion); any other
\* replacement gives its whitespace-split words; an entry with a replacement
\* field, the empty string included, is applied automatically even when it
\* also has a suggestion.
C11_ReplacementCompilation ==
    (~cmLegacy /\ cmRule # Absent) =>
        /\ (hasSuggestion(cmEntry) /\ cmEntry.replacement = Absent) =>
                cmRule[1].replacement = Absent
        /\ (~hasSuggestion(cmEntry) /\ cmEntry.replacement = Absent) =>
                cmRule[1].replacement = Some(<<>>)
        /\ cmEntry.replacement = Some(<<>>) => cmRule[1].replacement = Some(<<>>)
        /\ (cmEntry.replacement # Absent /\ cmEntry.replacement # Some(<<>>)) =>
                /\ cmRule[1].replacement # Absent
                /\ isWordSplitOf(cmRule[1].replacement[1], cmEntry.replacement[1])
        /\ cmResult # Absent =>
                /\ Len(cmResult[1].matches) + Len(cmResult[1].suggestions) = 1
                /\ cmEntry.replacement # Absent =>
                        /\ Len(cmResult[1].matches) = 1
                        /\ cmResult[1].transformed # cleanupText(cmText)
                /\ cmRule[1].replacement = Absent =>
                        /\ Len(cmResult[1].suggestions) = 1
                        /\ cmResult[1].transformed = cleanupText(cmText)

\* an entry with both a replacement and a suggestion, compiled and applied
C11_Witness ==
    /\ ~cmLegacy
    /\ cmResult # Absent
    /\ hasSuggestion(cmEntry)
    /\ cmEntry.replacement = Some(<<>>)
    /\ Len(cmResult[1].matches) = 1

\* C12: every legacy rule whose replacement is null is compiled by
\* convertLegacyRule to a suggestion-only rule (replacement null); its matches
\* are suggestions and are never substituted into the transformed text.
C12_NullLegacyRuleIsSuggestionOnly ==
    (cmLegacy /\ cmRule # Absent /\ cmEntry.replacement = Absent) =>
        /\ cmRule[1].replacement = Absent
        /\ cmResult # Absent =>
                /\ cmResult[1].matches = <<>>
                /\ Len(cmResult[1].suggestions) = 1
                /\ cmResult[1].transformed = cleanupText(cmText)

\* the statements of processWithRules still ahead, in order
rank == [findMatches |-> 3, scan |-> 2, apply |-> 1, done |-> 0, idle |-> 0]

\* no loop of a call has more iterations than this
maxIterations == Len(rules) * (Len(text) + 1)

\* the iterations the current loop still has to make
iterationsLeft ==
    IF pc = "scan" THEN Len(sortedRules) - ruleIdx
    ELSE IF pc = "apply" THEN Len(sortedMatches) - matchIdx
    ELSE 0

\* a measure that every step of processWithRules decreases
stepsLeft == rank[pc] * (maxIterations + 1) + iterationsLeft

\* what holds of processWithRules at every statement: a loop has between 0
\* and maxIterations iterations left, and once it has returned the result's
\* lists hold matches of the given rules inside the text; for the empty string
\* transformed is "" and both lists are empty
returnsWellFormed ==
    /\ pc \in {"findMatches", "scan", "apply", "done"}
    /\ 0 <= iterationsLeft
    /\ iterationsLeft <= maxIterations
    /\ pc = "done" =>
          /\ \A k \in 1..Len(allMatches) :
                /\ \E r \in 1..Len(rules) : allMatches[k].rule = rules[r]
                /\ 0 <= allMatches[k].textStart
                /\ allMatches[k].textStart < allMatches[k].textEnd
                /\ allMatches[k].textEnd <= Len(text)
          /\ Len(replacements) + Len(suggestions) = Len(allMatches)
          /\ withoutSpaces(text) = <<>> =>
                (allMatches = <<>> /\ withoutSpaces(transformed) = <<>>)
          /\ text = <<>> =>
                (transformed = <<>> /\ replacements = <<>> /\ suggestions = <<>>)

layoutOf(s) == SelectSeq(s, LAMBDA c : c \in {"\n", "\t"})

\* C14: the cleanup that ends applyMatches never adds, removes or reorders
\* newline or tab characters: the sequence of newlines and tabs of the cleaned
\* text equals that of the text before cleanup.
C14_CleanupKeepsNewlinesAndTabs ==
    pc = "done" => layoutOf(transformed) = layoutOf(result)

\* how many times x occurs in the list
occurrences(list, x) == Cardinality({i \in 1..Len(list) : list[i] = x})

\* the list back to front
reverse(list) == [i \in 1..Len(list) |-> list[Len(list) + 1 - i]]

\* the text with each of the given matches, taken from the last to the first,
\* replaced by its replacement text
RECURSIVE substituted(_, _)
substituted(original, ms) ==
    IF ms = <<>> THEN original
    ELSE LET m == Head(ms)
         IN  substituted(slice(original, 0, m.textStart)
                            \o (IF m.replacementText = Absent THEN <<>>
                                ELSE m.replacementText[1])
                            \o sliceFrom(original, m.textEnd),
                         Tail(ms))

\* C15: processWithRules splits the matches of findMatches into two disjoint
\* lists that together hold every match exactly once: the replacements are
\* exactly the matches of rules with a non-null replacement, the suggestions
\* exactly those of rules with a null replacement, and transformed is the
\* original with the replacements, and nothing else, substituted.
C15_ReplacementsAndSuggestionsPartition ==
    pc = "done" =>
        /\ \A k \in 1..Len(allMatches) :
              /\ occurrences(replacements, allMatches[k])
                    + occurrences(suggestions, allMatches[k]) = 1
              /\ occurrences(replacements, allMatches[k]) = 1
                    <=> allMatches[k].rule.replacement # Absent
              /\ occurrences(suggestions, allMatches[k]) = 1
                    <=> allMatches[k].rule.replacement = Absent
        /\ Len(replacements) + Len(suggestions) = Len(allMatches)
        /\ \A j \in 1..Len(replacements) : occurrences(allMatches, replacements[j]) = 1
        /\ \A j \in 1..Len(suggestions) : occurrences(allMatches, suggestions[j]) = 1
        /\ transformed = cleanupText(substituted(text, reverse(replacements)))

\* a return with both lists filled and a text that the replacements changed
C15_Witness ==
    /\ pc = "done"
    /\ Len(allMatches) >= 2
    /\ Len(replacements) >= 1
    /\ Len(suggestions) >= 1
    /\ transformed # cleanupText(text)

\* the matches of the ProcessResult that the last call of processText returned
lastMatches ==
    IF lastCall = Absent THEN <<>>
    ELSE lastCall[1].result.replacements \o lastCall[1].result.suggestions

\* C16: every Match of a ProcessResult, replacement or suggestion, has
\* 0 <= start < end <= length(original); its offsets index the original
\* input text, and its original field is original[start:end].
C16_MatchOffsetsIndexOriginal ==
    lastCall # Absent =>
        /\ lastCall[1].result.original = lastCall[1].text
        /\ \A k \in 1..Len(lastMatches) :
              /\ 0 <= lastMatches[k].start
              /\ lastMatches[k].start < lastMatches[k].end
              /\ lastMatches[k].end <= Len(lastCall[1].text)
              /\ lastMatches[k].original =
                    slice(lastCall[1].text, lastMatches[k].start, lastMatches[k].end)

\* a result that holds a suggestion away from the start of the text, returned
\* after a result with a replacement whose range was extended over the pronoun
C16_Witness ==
    /\ lastCall # Absent
    /\ \E k \in 1..Len(lastCall[1].result.suggestions) :
          lastCall[1].result.suggestions[k].start > 0
    /\ \E key \in DOMAIN firstResults :
          /\ firstResults[key] # Absent
          /\ \E k \in 1..Len(firstResults[key][1].replacements) :
                LET match == firstResults[key][1].replacements[k]
                IN  /\ Len(match.original) > Len(match.rule.pattern)
                    /\ match.original = slice(key[1], match.start, match.end)

\* the replacements in the order runInteractive asks about them
toReview == sortReplacements(cliResult.replacements)

\* the starts of the matches of the list ascend
ascendingStarts(list) ==
    \A i, j \in 1..Len(list) : i < j => list[i].start < list[j].start

\* what the key just read did, by the key table of the prompt
keyEffect ==
    LET key == keys'[Len(keys')]
        current == toReview[cliIndex + 1]
        remaining == SubSeq(toReview, cliIndex + 1, Len(toReview))
        wasLast == cliIndex + 1 = Len(toReview)
    IN  /\ cliPc = "prompt"
        /\ key = "a" =>
              /\ accepted' = Append(accepted, current)
              /\ skipped' = skipped
              /\ cliIndex' = cliIndex + 1
              /\ quit' = FALSE
              /\ cliPc' = (IF wasLast THEN "returned" ELSE "prompt")
        /\ key = "s" =>
              /\ skipped' = Append(skipped, current)
              /\ accepted' = accepted
              /\ cliIndex' = cliIndex + 1
              /\ quit' = FALSE
              /\ cliPc' = (IF wasLast THEN "returned" ELSE "prompt")
        /\ key = "A" =>
              /\ accepted' = accepted \o remaining
              /\ skipped' = skipped
              /\ quit' = FALSE
              /\ cliPc' = "returned"
        /\ key = "S" =>
              /\ skipped' = skipped \o remaining
              /\ accepted' = accepted
              /\ quit' = FALSE
              /\ cliPc' = "returned"
        /\ key \in {"q", CtrlC} =>
              /\ skipped' = skipped \o remaining
              /\ accepted' = accepted
              /\ quit' = TRUE
              /\ cliPc' = "returned"
        /\ key \notin {"a", "s", "A", "S", "q", CtrlC} =>
              /\ cliPc' = "prompt"
              /\ UNCHANGED <<cliIndex, accepted, skipped, quit, outputFile, stdout,
                             stderr, histVars>>

\* what holds of the lists when runInteractive returns
returnedLists ==
    /\ \A k \in 1..Len(toReview) :
          occurrences(accepted, toReview[k]) + occurrences(skipped, toReview[k]) = 1
    /\ Len(accepted) + Len(skipped) = Len(toReview)
    /\ ascendingStarts(accepted)
    /\ ascendingStarts(skipped)

\* C17: for any sequence of key presses, when runInteractive returns every
\* replacement is in exactly one of accepted and skipped and each list is in
\* ascending start order; 'a' and 's' decide the current replacement only,
\* 'A' accepts the current and all remaining ones, 'S' skips them, 'q' or
\* Ctrl+C skips them and sets quit, and any other key changes nothing and
\* leaves the prompt at the same replacement.
C17_KeysDecideReplacements ==
    [][/\ keys' # keys => keyEffect
       /\ cliPc' = "returned" => returnedLists']_vars

\* a return after an accepted phrase, an ignored key and a quit
C17_Witness ==
    /\ cliPc = "returned"
    /\ keys = <<"a", "x", CtrlC>>
    /\ Len(accepted) = 1
    /\ Len(skipped) = 2
    /\ quit

\* C18: if the user quits at a prompt of interactive mode no change is
\* applied: the run ends without writing the output file, without printing a
\* transformed text and without saving a history entry, also when some
\* replacements were accepted before the quit.
C18_QuitAppliesNothing ==
    quit =>
        /\ outputFile = Absent
        /\ stdout = <<>>
        /\ \A i \in 1..Len(stderr) : stderr[i].kind = "notice"
        /\ historyFile = <<>>
        /\ lastSaved = Absent
        /\ clock = 0

\* a run that ended by a quit after a replacement was accepted
C18_Witness ==
    /\ cliPc = "exit"
    /\ quit
    /\ Len(accepted) > 0
    /\ Len(stderr) = 1

\* the text that a finished run wrote to the output file or printed
deliveredText ==
    IF cliOptions.output # Absent THEN outputFile[1] ELSE stdout[1].transformed

\* C19: applyAcceptedReplacements with an empty accepted list returns the
\* original text character for character, with no cleanup applied: a run in
\* which nothing was accepted delivers the original as it was.
C19_NothingAcceptedKeepsOriginal ==
    (cliPc = "exit" /\ ~quit /\ accepted = <<>>) =>
        /\ deliveredText = cliResult.original
        /\ applyAcceptedReplacements(cliResult.original, accepted) = cliResult.original

\* a finished run in which every phrase of a text that cleanup would change
\* was skipped
C19_Witness ==
    /\ cliPc = "exit"
    /\ ~quit
    /\ accepted = <<>>
    /\ Len(skipped) = 3
    /\ cleanupAccepted(cliResult.original) # cliResult.original
    /\ deliveredText = Texts.draft

\* the entries of the list are ordered from the latest save to the earliest
newestFirst(entries) ==
    \A i, j \in 1..Len(entries) : i < j => entries[i].timestamp > entries[j].timestamp

\* what holds of history.json when a saveEntry call has returned
savedOnTop ==
    /\ Len(historyFile') <= maxEntries'
    /\ Len(historyFile') >= 1
    /\ historyFile'[1] = lastSaved'[1]
    /\ getLatestEntry(historyFile') = lastSaved'
    /\ getEntries(historyFile', 1) = <<lastSaved'[1]>>
    /\ newestFirst(historyFile')
    /\ historyFile' \o dropped' = <<lastSaved'[1]>> \o historyFile
    /\ \A d \in 1..Len(dropped'), k \in 1..Len(historyFile') :
          dropped'[d].timestamp < historyFile'[k].timestamp

\* C20: after any sequence of saveEntry calls the history holds at most
\* maxEntries entries ordered newest first: the entry just saved is entries[0],
\* which getLatestEntry returns, and when the limit is exceeded the entries
\* dropped are the oldest ones.
C20_HistoryBoundedNewestFirst == [][clock' # clock => savedOnTop]_vars

\* a save that filled the history to a lowered limit and dropped two entries
C20_Witness ==
    /\ lastSaved # Absent
    /\ Len(dropped) >= 2
    /\ Len(historyFile) = maxEntries
    /\ historyFile[1] = lastSaved[1]

\* the original copied left to right between the boundaries of the matches,
\* taken in ascending order, each match's range giving way to its replacement
RECURSIVE copyBetween(_, _, _)
copyBetween(original, ascending, from) ==
    IF ascending = <<>> THEN sliceFrom(original, from)
    ELSE slice(original, from, Head(ascending).textStart)
            \o (IF Head(ascending).replacementText = Absent THEN <<>>
                ELSE Head(ascending).replacementText[1])
            \o copyBetween(original, Tail(ascending), Head(ascending).textEnd)

\* C24: in applyMatches every splice is made against original-text offsets:
\* when a match is about to be spliced the intermediate text agrees with the
\* original on [0, textEnd), and once all are spliced the text before cleanup
\* is the original copied left to right between the sorted match boundaries
\* with each range replaced by its replacement text.
C24_SplicesAgainstOriginal ==
    /\ (pc = "apply" /\ matchIdx < Len(sortedMatches)) =>
          slice(result, 0, sortedMatches[matchIdx + 1].textEnd)
              = slice(text, 0, sortedMatches[matchIdx + 1].textEnd)
    /\ ((pc = "apply" /\ matchIdx = Len(sortedMatches)) \/ pc = "done") =>
          result = copyBetween(text, reverse(sortedMatches), 0)

\* C25: in the output of applyMatches no line holds two consecutive plain
\* spaces, no line begins or ends with a plain space, and within a line no
\* whitespace character stands immediately before any of . , ! ? ; :
C25_OutputSpacingClean ==
    pc = "done" =>
        \A k \in 1..Len(splitLines(transformed)) :
            LET line == splitLines(transformed)[k]
            IN  /\ \A i \in 1..(Len(line) - 1) : ~(line[i] = " " /\ line[i + 1] = " ")
                /\ Len(line) > 0 => (line[1] # " " /\ line[Len(line)] # " ")
                /\ \A i \in 1..(Len(line) - 1) :
                      line[i + 1] \in {".", ",", "!", "?", ";", ":"} => ~IsSpace(line[i])

\* a return whose text before clean-up had a doubled space, a space before
\* punctuation and a space at the end of a line
C25_Witness ==
    /\ pc = "done"
    /\ \E i \in 1..(Len(result) - 1) : result[i] = " " /\ result[i + 1] = " "
    /\ \E i \in 1..(Len(result) - 1) : IsSpace(result[i]) /\ result[i + 1] = "."
    /\ \E i \in 1..(Len(result) - 1) : result[i] = " " /\ result[i + 1] = "\n"
    /\ transformed # result

\* offset j (from 1) of the text follows a run of whitespace that follows one
\* of . ! ?
afterSentenceEnd(s, j) ==
    \E p \in 1..(j - 2) :
        /\ s[p] \in {".", "!", "?"}
        /\ \A q \in (p + 1)..(j - 1) : IsSpace(s[q])

\* offset j (from 1) holds the first character of the text that is no whitespace
firstNonWhitespaceAt(s, j) ==
    /\ ~IsSpace(s[j])
    /\ \A q \in 1..(j - 1) : IsSpace(s[q])

\* the text of applyMatches after the line-by-line clean-up and before the
\* capitalization repair
cleanedLinesOf(s) ==
    LET lines == splitLines(s)
    IN  joinLines([i \in 1..Len(lines) |-> cleanLine(lines[i])])

\* C26: in the output of applyMatches no lowercase letter a-z directly
\* follows a run of whitespace that directly follows '.', '!' or '?', and the
\* first non-whitespace character equals its own uppercase form; apart from
\* these case changes the capitalization repair leaves every character of the
\* cleaned text unchanged.
C26_CapitalizationRepaired ==
    pc = "done" =>
        LET cleaned == cleanedLinesOf(result)
        IN  /\ \A j \in 1..Len(transformed) :
                  /\ afterSentenceEnd(transformed, j) => transformed[j] \notin LowerSet
                  /\ firstNonWhitespaceAt(transformed, j) =>
                        transformed[j] = upperChar(transformed[j])
            /\ Len(transformed) = Len(cleaned)
            /\ \A j \in 1..Len(transformed) :
                  transformed[j] # cleaned[j] =>
                      /\ transformed[j] = upperChar(cleaned[j])
                      /\ \/ afterSentenceEnd(cleaned, j)
                         \/ firstNonWhitespaceAt(cleaned, j)

\* a return in which a letter after a full stop and a run of two whitespace
\* characters was uppercased
C26_Witness ==
    /\ pc = "done"
    /\ \E j \in 4..Len(transformed) :
          /\ transformed[j] \in UpperSet
          /\ cleanedLinesOf(result)[j] \in LowerSet
          /\ IsSpace(transformed[j - 1])
          /\ IsSpace(transformed[j - 2])
          /\ transformed[j - 3] = "."

\* the words of the pattern equal the lowercase forms of the consecutive
\* word and contraction tokens from index i (from 0) on
wordsEqualAt(pattern, i) ==
    /\ i + Len(pattern) <= Len(wordTokensOfText)
    /\ \A k \in 1..Len(pattern) :
          /\ wordTokensOfText[i + k].type \in {"word", "contraction"}
          /\ pattern[k].text = toLowerCase(wordTokensOfText[i + k].text)

\* matching looks at the word and contraction tokens only: a pattern matches
\* at a position exactly when its words are the lowercase forms of the
\* consecutive tokens there, and every recorded match is such an occurrence
\* that starts at the start of its first word
matchesOnWordsOnly ==
    /\ pc = "done" =>
          \A r \in 1..Len(rules), i \in 0..Len(wordTokensOfText) :
              matchesPattern(wordTokensOfText, i, rules[r].pattern).matched
                  <=> wordsEqualAt(rules[r].pattern, i)
    /\ \A k \in 1..Len(matches) :
          /\ matches[k].tokenEnd = matches[k].tokenStart + Len(matches[k].rule.pattern)
          /\ wordsEqualAt(matches[k].rule.pattern, matches[k].tokenStart)
          /\ matches[k].textStart = wordTokensOfText[matches[k].tokenStart + 1].start

\* the match's end was moved over the subject pronoun that follows it
endsAtPronoun(match) ==
    /\ match.rule.restructure
    /\ match.tokenEnd < Len(wordTokensOfText)
    /\ wordTokensOfText[match.tokenEnd + 1].normalized \in SUBJECT_PRONOUNS
    /\ match.textEnd = wordTokensOfText[match.tokenEnd + 1].end

\* C27 (amended): matching looks only at the sequence of word and contraction
\* tokens, whatever punctuation or whitespace lies between them; the matched
\* range runs from the start of the first matched word to the end of the last
\* one, or, for a rule with a subject capture that a subject pronoun follows,
\* to the end of that pronoun, so intervening punctuation is replaced
\* together with the words.
C27_MatchesWordsRangeOrPronoun ==
    pc \in {"scan", "apply", "done"} =>
        /\ matchesOnWordsOnly
        /\ \A k \in 1..Len(matches) :
              IF /\ matches[k].rule.restructure
                 /\ matches[k].tokenEnd < Len(wordTokensOfText)
                 /\ wordTokensOfText[matches[k].tokenEnd + 1].normalized
                        \in SUBJECT_PRONOUNS
              THEN endsAtPronoun(matches[k])
              ELSE matches[k].textEnd = wordTokensOfText[matches[k].tokenEnd].end

\* "I'm sorry, but I can't attend." has become "I can't attend."
C27_Witness ==
    /\ pc = "done"
    /\ text = Texts.sorryBut
    /\ Len(matches) = 1
    /\ matches[1].textStart = 0
    /\ matches[1].textEnd = 14
    /\ transformed = SubSeq(Texts.sorryBut, 16, 30)

\* C27: matching looks only at the sequence of word and contraction tokens,
\* and the matched range runs from the start of the first matched word to the
\* end of the last one.
C27_MatchesWordsRangeOnly ==
    pc \in {"scan", "apply", "done"} =>
        /\ matchesOnWordsOnly
        /\ \A k \in 1..Len(matches) :
              matches[k].textEnd = wordTokensOfText[matches[k].tokenEnd].end

\* the pattern of the rule occurs at word index i (from 0) with at least one word
occurrence(rule, i) == Len(rule.pattern) > 0 /\ wordsEqualAt(rule.pattern, i)

\* the offsets the occurrence spans share an offset
occurrencesOverlap(ruleA, i, ruleB, j) ==
    /\ wordTokensOfText[i + 1].start < wordTokensOfText[j + Len(ruleB.pattern)].end
    /\ wordTokensOfText[j + 1].start < wordTokensOfText[i + Len(ruleA.pattern)].end

\* findMatches returned a match of the rule at word index i
kept(rule, i) ==
    \E k \in 1..Len(allMatches) :
        allMatches[k].rule = rule /\ allMatches[k].tokenStart = i

\* rules of equal pattern length keep their listed order in sortedRules, and
\* longer patterns come first
listedOrderKept ==
    /\ Len(sortedRules) = Len(rules)
    /\ \A a, b \in 1..Len(rules) :
          (a < b /\ Len(rules[a].pattern) = Len(rules[b].pattern)) =>
              \E p, q \in 1..Len(sortedRules) :
                  p < q /\ sortedRules[p] = rules[a] /\ sortedRules[q] = rules[b]

\* C28 (amended): for two rules with the same pattern length all matches of
\* the rule listed earlier are decided before any match of the later rule is
\* considered, and within one rule occurrences are decided leftmost first: an
\* occurrence is kept exactly when it overlaps no occurrence that was kept
\* before it.  So a later rule's occurrence that overlaps a kept match of the
\* earlier rule is rejected even when it starts at a smaller offset, while an
\* occurrence of the earlier rule that was itself rejected does not block the
\* later rule.
C28_EarlierDecidedFirst ==
    pc = "done" =>
        /\ listedOrderKept
        /\ \A p \in 1..Len(sortedRules), i \in 0..(Len(wordTokensOfText) - 1) :
              occurrence(sortedRules[p], i) =>
                  (kept(sortedRules[p], i) <=>
                      ~\E q \in 1..p, j \in 0..(Len(wordTokensOfText) - 1) :
                          /\ q < p \/ j < i
                          /\ occurrence(sortedRules[q], j)
                          /\ kept(sortedRules[q], j)
                          /\ occurrencesOverlap(sortedRules[p], i, sortedRules[q], j))

\* 'very very very good' with 'very good' listed before 'very very': the
\* later rule's second occurrence starts left of the earlier rule's match
\* and is rejected, its first occurrence is kept
C28_Witness ==
    /\ pc = "done"
    /\ text = Texts.veryVeryVeryGood
    /\ Len(rules) = 2
    /\ Len(rules[1].pattern) = Len(rules[2].pattern)
    /\ kept(rules[1], 2)
    /\ occurrence(rules[2], 1) /\ ~kept(rules[2], 1)
    /\ occurrence(rules[2], 0) /\ kept(rules[2], 0)

\* C28: for two rules with the same pattern length, wherever occurrences of
\* the two rules overlap the earlier-listed rule's match is kept and the later
\* rule's is rejected, even when the later rule's occurrence starts at a
\* smaller offset; within one rule, of two overlapping occurrences the
\* leftmost is kept.
C28_EarlierRuleAlwaysWins ==
    pc = "done" =>
        /\ \A a, b \in 1..Len(rules), i, j \in 0..(Len(wordTokensOfText) - 1) :
              (/\ a < b
               /\ Len(rules[a].pattern) = Len(rules[b].pattern)
               /\ occurrence(rules[a], i)
               /\ occurrence(rules[b], j)
               /\ occurrencesOverlap(rules[a], i, rules[b], j)) =>
                  (kept(rules[a], i) /\ ~kept(rules[b], j))
        /\ \A a \in 1..Len(rules), i, j \in 0..(Len(wordTokensOfText) - 1) :
              (/\ i < j
               /\ occurrence(rules[a], i)
               /\ occurrence(rules[a], j)
               /\ occurrencesOverlap(rules[a], i, rules[a], j)) =>
                  ~(kept(rules[a], i) /\ kept(rules[a], j))

\* the occurrence of the rule at word index i shares an offset with the span
\* of the pattern words of the match
overlapsPatternSpan(rule, i, match) ==
    /\ wordTokensOfText[i + 1].start < wordTokensOfText[match.tokenEnd].end
    /\ wordTokensOfText[match.tokenStart + 1].start
          < wordTokensOfText[i + Len(rule.pattern)].end

\* C29: findMatches is maximal: for every rule and every start position in
\* the word-token sequence where its pattern matches at least one word, the
\* occurrence is returned as a match or its span overlaps the pattern span of
\* a returned match; no occurrence is dropped for another reason.
C29_FindMatchesMaximal ==
    pc \in {"apply", "done"} =>
        \A r \in 1..Len(rules), i \in 0..(Len(wordTokensOfText) - 1) :
            occurrence(rules[r], i) =>
                \/ \E k \in 1..Len(allMatches) :
                      /\ allMatches[k].rule = rules[r]
                      /\ allMatches[k].tokenStart = i
                      /\ allMatches[k].textStart = wordTokensOfText[i + 1].start
                \/ \E k \in 1..Len(allMatches) :
                      overlapsPatternSpan(rules[r], i, allMatches[k])

\* a return with two matches of one rule and an occurrence of the other rule
\* that was dropped
C29_Witness ==
    /\ pc = "done"
    /\ Len(rules) = 2
    /\ \E a, b \in 1..Len(allMatches) :
          a # b /\ allMatches[a].rule = allMatches[b].rule
    /\ \E r \in 1..2, i \in 0..(Len(wordTokensOfText) - 1) :
          /\ occurrence(rules[r], i)
          /\ \A k \in 1..Len(allMatches) :
                ~(allMatches[k].rule = rules[r] /\ allMatches[k].tokenStart = i)

\* C30: for every ProcessResult of processText with at least one
\* replacement, accepting all replacements in interactive mode gives the text
\* of non-interactive processing: applyAcceptedReplacements(r.original,
\* r.replacements) equals r.transformed.
C30_AcceptAllEqualsTransformed ==
    (/\ cliPc = "exit"
     /\ ~quit
     /\ Len(cliResult.replacements) > 0
     /\ Len(accepted) = Len(cliResult.replacements)) =>
        /\ deliveredText = cliResult.transformed
        /\ applyAcceptedReplacements(cliResult.original, cliResult.replacements)
              = cliResult.transformed

\* a finished run in which three replacements were accepted one by one
C30_Witness ==
    /\ cliPc = "exit"
    /\ keys = <<"a", "a", "a">>
    /\ Len(accepted) = 3
    /\ deliveredText # cliResult.original

\* C21: a call of undoEntry returns a value in every case.  When the entry has
\* no output file it reports failure, its message says that the output was to
\* stdout and carries the original text, and the disk is as before.  When the
\* output file does not exist it reports failure and the disk is as before:
\* no file and no directory is created.  It reports success only when the
\* output file existed, and then the only change on disk is that the file
\* holds the entry's original text; a writable file that exists is restored.
C21_UndoFailsUntouchedOrRestores ==
    [][undoCalls' # undoCalls =>
        LET entry == undone'[1]
            returned == undoResult'[1]
            target == entry.outputFile[1]
        IN  /\ returned.success \in BOOLEAN
            /\ noOutputFile(entry) =>
                   /\ ~returned.success
                   /\ returned.message =
                          [text |-> "Cannot undo: output was to stdout. Original text was:", with |-> entry.original]
                   /\ disk' = disk
            /\ (~noOutputFile(entry) /\ ~existsSync(disk, target)) =>
                   /\ ~returned.success
                   /\ returned.message.with = target
                   /\ disk' = disk
            /\ ~returned.success => disk' = disk
            /\ returned.success =>
                   /\ ~noOutputFile(entry)
                   /\ existsSync(disk, target)
                   /\ disk' = [disk EXCEPT ![target] = File(entry.original, TRUE)]
            /\ (~noOutputFile(entry) /\ disk[target].kind = "file" /\ disk[target].writable) =>
                   returned.success]_vars

\* an undo restored a file that held the transformed text, and a second undo of
\* an entry whose output file is gone failed and created nothing
C21_Witness ==
    /\ undoCalls = 2
    /\ ~undoResult[1].success
    /\ ~noOutputFile(undone[1])
    /\ ~existsSync(disk, undone[1].outputFile[1])
    /\ disk[<<"drafts">>] = Missing
    /\ \E e \in UndoEntries :
           /\ e.outputFile = Some(<<"out.txt">>)
           /\ e.original # e.transformed
           /\ disk[<<"out.txt">>] = File(e.original, TRUE)

\* the runs before run i that got past the hash check
passedBefore(i) == {j \in 1..(i - 1) : runs[j].processed}

\* the latest of them
latestPassedBefore(i) == CHOOSE j \in passedBefore(i) : \A k \in passedBefore(i) : k <= j

\* the hash of the content it saw, '' when there is none
hashBefore(i) == IF passedBefore(i) = {} THEN <<>> ELSE runs[latestPassedBefore(i)].hash

\* C22: a processFile run gets to processText exactly when it read the file
\* and the hash of what it read differs from the hash of the content seen by
\* the latest earlier run that got past the hash check, so content identical
\* to that content is skipped; only such a run writes or prints, and what it
\* delivers is the transformed content; lastHash is that hash; the first run
\* is made by watchFile itself, once, before any change event, and it
\* processes the file whenever watching starts.
C22_ProcessedOnlyWhenHashDiffers ==
    /\ \A i \in 1..Len(runs) :
           /\ runs[i].processed <=>
                  (runs[i].content # Absent /\ runs[i].hash # hashBefore(i))
           /\ (runs[i].content # Absent /\ passedBefore(i) # {}
                 /\ runs[i].content = runs[latestPassedBefore(i)].content)
                  => ~runs[i].processed
           /\ runs[i].delivered # Absent =>
                  /\ runs[i].processed
                  /\ runs[i].delivered =
                         Some(processText(Absent, CliDatabase, runs[i].content[1],
                                          watchOptions.level).result.transformed)
    /\ lastHash = hashBefore(Len(runs) + 1)
    /\ watchPc = "start" => runs = <<>>
    /\ (watchPc \in {"watching", "stopped", "exited"} /\ timerCount = 0) => Len(runs) = 1
    /\ watchPc \in {"watching", "stopped"} => (runs[1].processed /\ watcher # "null")

\* the file was processed at the start, saved again with the same content and
\* skipped, then saved with other content and processed and delivered
C22_Witness ==
    /\ Len(runs) = 3
    /\ runs[1].processed
    /\ ~runs[2].processed
    /\ runs[2].content = runs[1].content
    /\ runs[3].processed
    /\ runs[3].content # runs[1].content
    /\ runs[3].delivered # Absent

\* C23: at most one debounce timer is pending, and it is the one debounceTimer
\* holds; while watching, change events delivered since the latest expiry
\* leave exactly one timer pending; a processFile run after the first is made
\* by the expiry of that timer, once for the whole burst of events before it,
\* and leaves no timer pending; after stop() no timer is pending and no
\* processFile run is made.
C23_OnePendingTimerOneRunPerBurst ==
    [][/\ Cardinality(timers') <= 1
       /\ timers' # {} => debounceTimer' = Some(timerCount')
       /\ timers' \subseteq {timerCount'}
       /\ (watchPc' = "watching" /\ burst' > 0) => timers' = {timerCount'}
       /\ watchPc' = "stopped" => (timers' = {} /\ watcher' = "closed")
       /\ (watchPc # "start" /\ runs' # runs) =>
              /\ watchPc = "watching"
              /\ burst > 0
              /\ Len(runs') = Len(runs) + 1
              /\ timers' = {}
              /\ burst' = 0
       /\ watchPc = "stopped" => runs' = runs]_vars

\* two change events in a row led to one run, a third set a timer, and stop()
\* cleared it
C23_Witness ==
    /\ watchPc = "stopped"
    /\ timerCount = 3
    /\ Len(runs) = 2
    /\ debounceTimer = Some(3)
    /\ timers = {}
    /\ burst = 1

====
